---------------------------- MODULE Spec2Model ----------------------------
(***************************************************************************)
(* GlitchBook: the glitch transform library (src/glitches) and the state   *)
(* the Sandbox keeps around it.                                            *)
(*                                                                         *)
(* A transform is `apply(imageData, params)`.  It is modelled as a render  *)
(* of one pixel operator per transform over the output raster.  A pixel    *)
(* operator returns what the loop body of the transform does for output    *)
(* pixel (x, y): the four values it stores (before the Uint8ClampedArray   *)
(* conversion), the indices it reads, and whether it stores at all.        *)
(*                                                                         *)
(* Numbers.  A JavaScript number that is a parameter is kept as an exact   *)
(* multiple of 1/100 (field num = 100 * value); every declared min, max,   *)
(* step and default of the catalog is such a multiple.  Arithmetic on      *)
(* fractions is exact rational arithmetic, Math.floor is \div and          *)
(* Math.round(n/d) is (2n + d) \div 2d.                                     *)
(***************************************************************************)
EXTENDS Integers, Sequences, FiniteSets, TLC

VARIABLES
    heap,       \* live ImageData objects: id -> [width, height, data]
    original,   \* id of the bitmap handed to apply (0: none loaded)
    glitch,     \* id of the transform applied last ("" : none yet)
    params,     \* the GlitchParams map handed to that call
    result,     \* outcome of that call (see NoResult)
    snapshot,   \* the input bitmap's bytes as they were before that call
    previous,   \* outcome of the same call made before (see NoResult)
    registry,   \* what glitches/index.ts exports (see GlitchesModule)
    handled,    \* what the Sandbox handler that ran last did (see NoEvent)
    frame,      \* the locals of a transform call that is running (see NoFrame)
    pending,    \* the files handed to handleFile, oldest first, each with the state of its load
    downloadBtn \* downloadBtn.disabled

vars == <<heap, original, glitch, params, result, snapshot, previous, registry, handled,
          frame, pending, downloadBtn>>

---------------------------------------------------------------------------
(* Bounds of the model.                                                    *)

MaxDim == 2          \* bitmaps are w x h with 1 <= w, h <= MaxDim
MaxSeed == 1         \* test bitmaps are numbered 0 .. MaxSeed
MaxEntries == 3      \* lists of transforms given to the registry hold up to MaxEntries
MaxIds == 2          \* with ids among the first MaxIds ids of the catalog
MaxSelect == 6       \* the Sandbox select offers the first MaxSelect transforms
MaxChain == 4        \* the step-by-step mip chain runs on bitmaps up to MaxChain x MaxChain
MaxFiles == 2        \* up to MaxFiles files are handed to handleFile
MaxOptions == 2      \* while files load the select offers the first MaxOptions transforms
MaxHash == 9         \* the hash is taken at coordinates 0 .. MaxHash and at three large ones

---------------------------------------------------------------------------
(* JavaScript arithmetic.                                                  *)

Max(a, b) == IF a >= b THEN a ELSE b
Min(a, b) == IF a <= b THEN a ELSE b

\* a % b of JavaScript for integers, b > 0: the sign follows the dividend.
JsMod(a, b) == IF a >= 0 THEN a % b ELSE 0 - ((0 - a) % b)

\* Math.round(n / d), d > 0: the nearest integer, halves upward.
Round(n, d) == (2 * n + d) \div (2 * d)

\* Math.max(lo, Math.min(hi, v))
Clamp(lo, hi, v) == Max(lo, Min(hi, v))

---------------------------------------------------------------------------
(* Values stored into and read from pixel buffers.  A read outside a typed *)
(* array yields undefined; arithmetic on it yields NaN.                    *)

Number(n) == [tag |-> "number", val |-> n]
Undefined == [tag |-> "undefined", val |-> 0]
NaN == [tag |-> "NaN", val |-> 0]

\* data[i] on a Uint8ClampedArray
Get(data, i) == IF i >= 0 /\ i < Len(data) THEN Number(data[i + 1]) ELSE Undefined

\* the conversion a Uint8ClampedArray applies on a store
ToUint8Clamped(v) == IF v.tag = "number" THEN Clamp(0, 255, v.val) ELSE 0

\* one read of a buffer of length len at index i
Rd(i, len) == <<i, len>>
RdRange(i, n, len) == {Rd(j, len) : j \in i..(i + n - 1)}

\* what a loop body does for one output pixel
Px(r, g, b, a, reads) == [rgba |-> <<r, g, b, a>>, reads |-> reads, written |-> TRUE]
\* an output pixel the loop never stores to: it keeps the zeros of new ImageData
Unwritten(reads) ==
    [rgba |-> <<Number(0), Number(0), Number(0), Number(0)>>, reads |-> reads, written |-> FALSE]

---------------------------------------------------------------------------
(* GlitchParams values (types.ts: number | boolean | string).              *)

NumV(h) == [kind |-> "number", num |-> h, str |-> "", bool |-> FALSE]
IntV(n) == NumV(100 * n)
StrV(s) == [kind |-> "string", num |-> 0, str |-> s, bool |-> FALSE]
BoolV(b) == [kind |-> "boolean", num |-> 0, str |-> "", bool |-> b]

Truthy(v) ==
    CASE v.kind = "number" -> v.num # 0
      [] v.kind = "string" -> v.str # ""
      [] OTHER -> v.bool

Has(P, n) == n \in DOMAIN P

\* (params.n as T) || d
OrDefault(P, n, d) == IF Has(P, n) /\ Truthy(P[n]) THEN P[n] ELSE d
\* (params.n as T) ?? d
Nullish(P, n, d) == IF Has(P, n) THEN P[n] ELSE d
\* params.n !== false
NotFalse(P, n) == ~(Has(P, n) /\ P[n].kind = "boolean" /\ ~P[n].bool)
\* (params.n as boolean) || false, then used as a condition
OrFalse(P, n) == Has(P, n) /\ Truthy(P[n])

\* a number parameter that holds an integer
IntOf(v) == v.num \div 100
\* mode === 'label'
Is(v, label) == v.kind = "string" /\ v.str = label

---------------------------------------------------------------------------
(* Rendering: for (y...) for (x...) { body }                               *)

Render(img, Body(_, _)) ==
    [k \in 1..(img.width * img.height) |->
        Body((k - 1) % img.width, (k - 1) \div img.width)]

Ok(pixels) == [threw |-> FALSE, pixels |-> pixels]
Threw == [threw |-> TRUE, pixels |-> <<>>]

\* copy of the four bytes of the source pixel at srcIdx
CopyPixel(data, srcIdx) ==
    Px(Get(data, srcIdx), Get(data, srcIdx + 1), Get(data, srcIdx + 2),
       Get(data, srcIdx + 3), RdRange(srcIdx, 4, Len(data)))

---------------------------------------------------------------------------
(* coordinates/off-by-one                                                  *)

offByOneParams(P) ==
    [xOffset |-> OrDefault(P, "xOffset", IntV(1)),
     yOffset |-> OrDefault(P, "yOffset", IntV(1)),
     wrapEdges |-> BoolV(NotFalse(P, "wrapEdges"))]

offByOnePixel(img, q, x, y) ==
    LET width == img.width
        height == img.height
        sx == x + IntOf(q.xOffset)
        sy == y + IntOf(q.yOffset)
        srcX == IF q.wrapEdges.bool
                THEN JsMod(JsMod(sx, width) + width, width)
                ELSE Max(0, Min(width - 1, sx))
        srcY == IF q.wrapEdges.bool
                THEN JsMod(JsMod(sy, height) + height, height)
                ELSE Max(0, Min(height - 1, sy))
    IN  CopyPixel(img.data, (srcY * width + srcX) * 4)

---------------------------------------------------------------------------
(* coordinates/flipped-axis                                                *)

flippedAxisParams(P) == [flipMode |-> OrDefault(P, "flipMode", StrV("Flip Vertical"))]

\* a mirror that reads column width - x, kept inside the row
flippedAxisPixelOffByOne(img, q, x, y) ==
    LET width == img.width
        height == img.height
        m == q.flipMode
        srcX == IF Is(m, "Flip Horizontal") \/ Is(m, "Flip Both") \/ Is(m, "Rotate 180")
                THEN Min(width - x, width - 1) ELSE x
        srcY == IF Is(m, "Flip Vertical") \/ Is(m, "Flip Both") \/ Is(m, "Rotate 180")
                THEN Min(height - y, height - 1) ELSE y
    IN  CopyPixel(img.data, (srcY * width + srcX) * 4)

flippedAxisPixel(img, q, x, y) ==
    LET width == img.width
        height == img.height
        m == q.flipMode
        srcX == IF Is(m, "Flip Horizontal") \/ Is(m, "Flip Both") \/ Is(m, "Rotate 180")
                THEN width - 1 - x ELSE x
        srcY == IF Is(m, "Flip Vertical") \/ Is(m, "Flip Both") \/ Is(m, "Rotate 180")
                THEN height - 1 - y ELSE y
    IN  CopyPixel(img.data, (srcY * width + srcX) * 4)

---------------------------------------------------------------------------
(* pixel-format/channel-shift                                              *)

channelShiftParams(P) ==
    [redShift |-> OrDefault(P, "redShift", IntV(0)),
     greenShift |-> OrDefault(P, "greenShift", IntV(0)),
     blueShift |-> OrDefault(P, "blueShift", IntV(0))]

channelShiftPixel(img, q, x, y) ==
    LET width == img.width
        data == img.data
        idx == (y * width + x) * 4
        redX == Max(0, Min(width - 1, x + IntOf(q.redShift)))
        greenX == Max(0, Min(width - 1, x + IntOf(q.greenShift)))
        blueX == Max(0, Min(width - 1, x + IntOf(q.blueShift)))
        redIdx == (y * width + redX) * 4
        greenIdx == (y * width + greenX) * 4
        blueIdx == (y * width + blueX) * 4
    IN  Px(Get(data, redIdx), Get(data, greenIdx + 1), Get(data, blueIdx + 2),
           Get(data, idx + 3),
           {Rd(redIdx, Len(data)), Rd(greenIdx + 1, Len(data)),
            Rd(blueIdx + 2, Len(data)), Rd(idx + 3, Len(data))})

---------------------------------------------------------------------------
(* Transforms that loop `for (i = 0; i < data.length; i += 4)` read the    *)
(* four bytes r, g, b, a of pixel i / 4 and store a function of them.      *)

PixelAt(img, x, y) ==
    LET i == (y * img.width + x) * 4
    IN  [r |-> Get(img.data, i), g |-> Get(img.data, i + 1),
         b |-> Get(img.data, i + 2), a |-> Get(img.data, i + 3),
         reads |-> RdRange(i, 4, Len(img.data))]

(* pixel-format/bgr-swap *)

bgrSwapParams(P) == [swapMode |-> OrDefault(P, "swapMode", StrV("RGB to BGR"))]

\* a swap that rotates the three colour channels
bgrSwapPixelRotated(img, q, x, y) ==
    LET p == PixelAt(img, x, y)
        m == q.swapMode
    IN  CASE Is(m, "Swap R and G") -> Px(p.g, p.r, p.b, p.a, p.reads)
          [] Is(m, "Swap G and B") -> Px(p.r, p.b, p.g, p.a, p.reads)
          [] OTHER -> Px(p.b, p.r, p.g, p.a, p.reads)

bgrSwapPixel(img, q, x, y) ==
    LET p == PixelAt(img, x, y)
        m == q.swapMode
    IN  CASE Is(m, "RGB to BGR") -> Px(p.b, p.g, p.r, p.a, p.reads)
          [] Is(m, "Swap R and G") -> Px(p.g, p.r, p.b, p.a, p.reads)
          [] Is(m, "Swap G and B") -> Px(p.r, p.b, p.g, p.a, p.reads)
          [] OTHER -> Px(p.b, p.g, p.r, p.a, p.reads)

(* pixel-format/argb-order *)

argbOrderParams(P) == [format |-> OrDefault(P, "format", StrV("RGBA as ARGB"))]

argbOrderPixel(img, q, x, y) ==
    LET p == PixelAt(img, x, y)
        m == q.format
    IN  CASE Is(m, "RGBA as ARGB") -> Px(p.a, p.r, p.g, p.b, p.reads)
          [] Is(m, "RGBA as ABGR") -> Px(p.a, p.b, p.g, p.r, p.reads)
          [] Is(m, "RGBA as BGRA") -> Px(p.b, p.g, p.r, p.a, p.reads)
          [] Is(m, "Rotate channels left") -> Px(p.g, p.b, p.a, p.r, p.reads)
          [] Is(m, "Rotate channels right") -> Px(p.a, p.r, p.g, p.b, p.reads)
          [] OTHER -> Px(p.r, p.g, p.b, p.a, p.reads)

(* pixel-format/endianness *)

endiannessParams(P) ==
    [swapMode |-> OrDefault(P, "swapMode", StrV("Swap 32-bit (full reverse)"))]

endiannessPixel(img, q, x, y) ==
    LET p == PixelAt(img, x, y)
        m == q.swapMode
    IN  CASE Is(m, "Swap 32-bit (full reverse)") -> Px(p.a, p.b, p.g, p.r, p.reads)
          [] Is(m, "Swap 16-bit pairs") -> Px(p.g, p.r, p.a, p.b, p.reads)
          [] Is(m, "Swap within 16-bit") -> Px(p.g, p.r, p.b, p.a, p.reads)
          [] OTHER -> Px(p.r, p.g, p.b, p.a, p.reads)

---------------------------------------------------------------------------
(* memory-layout/wrong-stride                                              *)

wrongStrideParams(P) == [strideError |-> OrDefault(P, "strideError", IntV(4))]

\* the index the loop body reads from for output pixel (x, y)
wrongStrideIdx(img, q, x, y) ==
    LET correctStride == img.width * 4
        wrongStride == correctStride + IntOf(q.strideError)
        wrongOffset == y * wrongStride + x * 4
    IN  JsMod(wrongOffset, Len(img.data))

wrongStridePixel(img, q, x, y) ==
    LET data == img.data
        wrongIdx == wrongStrideIdx(img, q, x, y)
    IN  IF wrongIdx + 3 < Len(data)
        THEN Px(Get(data, wrongIdx), Get(data, wrongIdx + 1), Get(data, wrongIdx + 2),
                Number(255), RdRange(wrongIdx, 3, Len(data)))
        ELSE Px(Number(0), Number(0), Number(0), Number(255), {})

---------------------------------------------------------------------------
(* memory-layout/wrong-pitch                                               *)

wrongPitchParams(P) == [pitchMultiplier |-> OrDefault(P, "pitchMultiplier", NumV(125))]

wrongPitchIdx(img, q, x, y) ==
    LET correctPitch == img.width * 4
        wrongPitch == (correctPitch * q.pitchMultiplier.num) \div 100
        wrongOffset == y * wrongPitch + x * 4
    IN  JsMod(wrongOffset, Len(img.data))

wrongPitchPixel(img, q, x, y) ==
    LET data == img.data
        wrongIdx == wrongPitchIdx(img, q, x, y)
    IN  IF wrongIdx + 3 < Len(data)
        THEN Px(Get(data, wrongIdx), Get(data, wrongIdx + 1), Get(data, wrongIdx + 2),
                Number(255), RdRange(wrongIdx, 3, Len(data)))
        ELSE Px(Number(0), Number(0), Number(0), Number(255), {})

---------------------------------------------------------------------------
(* memory-layout/row-padding                                               *)

rowPaddingParams(P) ==
    [paddingBytes |-> OrDefault(P, "paddingBytes", IntV(4)),
     simulateBMP |-> BoolV(OrFalse(P, "simulateBMP"))]

\* not the program: the bounds test asks for one byte more than is read
rowPaddingPixelStrict(img, q, x, y) ==
    LET width == img.width
        data == img.data
        len == Len(data)
        outIdx == (y * width + x) * 4
    IN  IF q.simulateBMP.bool
        THEN LET rowSizeUnpadded == width * 3
                 padding == (4 - (rowSizeUnpadded % 4)) % 4
                 unpaddedOffset == y * rowSizeUnpadded + x * 3
                 effectiveOffset == unpaddedOffset + (y * padding)
                 srcPixel == effectiveOffset \div 4
                 srcIdx == srcPixel * 4
             IN  IF srcIdx + 4 < len
                 THEN Px(Get(data, srcIdx), Get(data, srcIdx + 1), Get(data, srcIdx + 2),
                         Number(255), RdRange(srcIdx, 3, len))
                 ELSE Unwritten({})
        ELSE LET offset == y * IntOf(q.paddingBytes)
                 srcIdx == JsMod(outIdx + offset, len)
                 i1 == Min(srcIdx + 1, len - 1)
                 i2 == Min(srcIdx + 2, len - 1)
             IN  Px(Get(data, srcIdx), Get(data, i1), Get(data, i2), Number(255),
                    {Rd(srcIdx, len), Rd(i1, len), Rd(i2, len)})

rowPaddingPixel(img, q, x, y) ==
    LET width == img.width
        data == img.data
        len == Len(data)
        outIdx == (y * width + x) * 4
    IN  IF q.simulateBMP.bool
        THEN LET rowSizeUnpadded == width * 3
                 padding == (4 - (rowSizeUnpadded % 4)) % 4
                 unpaddedOffset == y * rowSizeUnpadded + x * 3
                 effectiveOffset == unpaddedOffset + (y * padding)
                 srcPixel == effectiveOffset \div 4
                 srcIdx == srcPixel * 4
             IN  IF srcIdx + 3 < len
                 THEN Px(Get(data, srcIdx), Get(data, srcIdx + 1), Get(data, srcIdx + 2),
                         Number(255), RdRange(srcIdx, 3, len))
                 ELSE Unwritten({})
        ELSE LET offset == y * IntOf(q.paddingBytes)
                 srcIdx == JsMod(outIdx + offset, len)
                 i1 == Min(srcIdx + 1, len - 1)
                 i2 == Min(srcIdx + 2, len - 1)
             IN  Px(Get(data, srcIdx), Get(data, i1), Get(data, i2), Number(255),
                    {Rd(srcIdx, len), Rd(i1, len), Rd(i2, len)})

---------------------------------------------------------------------------
(* memory-layout/alignment                                                 *)

alignmentParams(P) ==
    [offsetBytes |-> OrDefault(P, "offsetBytes", IntV(1)),
     blockSize |-> OrDefault(P, "blockSize", IntV(16))]

\* not the program: the alpha byte is read at the misaligned index too
alignmentPixelAlphaShifted(img, q, x, y) ==
    LET data == img.data
        len == Len(data)
        i == (y * img.width + x) * 4
        blockIndex == i \div IntOf(q.blockSize)
        offset == IF blockIndex % 2 = 0 THEN IntOf(q.offsetBytes) ELSE 0
        srcIdx == JsMod(i + offset, len)
        i1 == Min(srcIdx + 1, len - 1)
        i2 == Min(srcIdx + 2, len - 1)
        i3 == Min(srcIdx + 3, len - 1)
    IN  Px(Get(data, srcIdx), Get(data, i1), Get(data, i2), Get(data, i3),
           {Rd(srcIdx, len), Rd(i1, len), Rd(i2, len), Rd(i3, len)})

alignmentPixel(img, q, x, y) ==
    LET data == img.data
        len == Len(data)
        i == (y * img.width + x) * 4
        blockIndex == i \div IntOf(q.blockSize)
        offset == IF blockIndex % 2 = 0 THEN IntOf(q.offsetBytes) ELSE 0
        srcIdx == JsMod(i + offset, len)
        i1 == Min(srcIdx + 1, len - 1)
        i2 == Min(srcIdx + 2, len - 1)
    IN  Px(Get(data, srcIdx), Get(data, i1), Get(data, i2), Get(data, i + 3),
           {Rd(srcIdx, len), Rd(i1, len), Rd(i2, len), Rd(i + 3, len)})

---------------------------------------------------------------------------
(* pixel-format/rgba-as-rgb and rgb-as-rgba                                *)

\* Math.round(a * (1 - intensity) + b * intensity), intensity = I / 100
Blend(a, b, I) ==
    IF a.tag # "number" \/ b.tag # "number" THEN NaN
    ELSE Number(Round(a.val * (100 - I) + b.val * I, 100))

rgbaAsRgbParams(P) == [intensity |-> OrDefault(P, "intensity", IntV(1))]

rgbaAsRgbPixel(img, q, x, y) ==
    LET width == img.width
        height == img.height
        data == img.data
        len == Len(data)
        I == q.intensity.num
        correctIdx == (y * width + x) * 4
        wrongPixelIndex == y * width + x
        wrongByteOffset == wrongPixelIndex * 3
        wrongIdx == JsMod(wrongByteOffset, width * height * 4)
    IN  IF wrongIdx + 2 < len
        THEN Px(Blend(Get(data, correctIdx), Get(data, wrongIdx), I),
                Blend(Get(data, correctIdx + 1), Get(data, wrongIdx + 1), I),
                Blend(Get(data, correctIdx + 2), Get(data, wrongIdx + 2), I),
                Number(255),
                RdRange(correctIdx, 3, len) \cup RdRange(wrongIdx, 3, len))
        ELSE Px(Get(data, correctIdx), Get(data, correctIdx + 1), Get(data, correctIdx + 2),
                Number(255), RdRange(correctIdx, 3, len))

rgbAsRgbaParams(P) == [intensity |-> OrDefault(P, "intensity", IntV(1))]

rgbAsRgbaPixel(img, q, x, y) ==
    LET width == img.width
        height == img.height
        data == img.data
        len == Len(data)
        I == q.intensity.num
        outIdx == (y * width + x) * 4
        wrongPixelIndex == y * width + x
        wrongByteOffset == wrongPixelIndex * 4
        actualPixelIndex == wrongByteOffset \div 3
        srcIdx == JsMod(actualPixelIndex, width * height) * 4
    IN  IF srcIdx + 3 < len
        THEN Px(Blend(Get(data, outIdx), Get(data, srcIdx), I),
                Blend(Get(data, outIdx + 1), Get(data, srcIdx + 1), I),
                Blend(Get(data, outIdx + 2), Get(data, srcIdx + 2), I),
                Number(255),
                RdRange(outIdx, 3, len) \cup RdRange(srcIdx, 3, len))
        ELSE Px(Get(data, outIdx), Get(data, outIdx + 1), Get(data, outIdx + 2),
                Number(255), RdRange(outIdx, 3, len))

---------------------------------------------------------------------------
(* 32-bit integer operators of JavaScript (<<, >>, &, ^) on two's          *)
(* complement words, least significant bit first.                          *)

\* a function over 1..n as the tuple TLC stores element by element
Bits(f) == f \o <<>>

\* the k low bits of n >= 0
NatBits(n, k) == Bits([i \in 1..k |-> (n \div (2 ^ (i - 1))) % 2])

\* the word of an integer in -2^31 .. 2^31 - 1
ToInt32(n) ==
    IF n >= 0 THEN NatBits(n, 31) \o <<0>>
    ELSE NatBits((n + 1) + 2147483647, 31) \o <<1>>

\* the number with the bits b[lo], ..., b[hi], least significant first
RECURSIVE BitsVal(_, _, _)
BitsVal(b, lo, hi) ==
    IF lo > hi THEN 0
    ELSE IF lo = hi THEN b[lo]
    ELSE BitsVal(b, lo, (lo + hi) \div 2)
         + (2 ^ (((lo + hi) \div 2) - lo + 1)) * BitsVal(b, ((lo + hi) \div 2) + 1, hi)

\* the integer of a word
FromInt32(b) == IF b[32] = 0 THEN BitsVal(b, 1, 31) ELSE (BitsVal(b, 1, 31) - 2147483647) - 1

BitAnd(a, b) == Bits([i \in 1..32 |-> a[i] * b[i]])
BitOr(a, b) == Bits([i \in 1..32 |-> Max(a[i], b[i])])
BitXor(a, b) == Bits([i \in 1..32 |-> (a[i] + b[i]) % 2])
\* a << k and a >> k: the shift count is taken modulo 32
BitShl(a, k) ==
    Bits([i \in 1..32 |-> IF i - (k % 32) >= 1 THEN a[i - (k % 32)] ELSE 0])
BitSar(a, k) ==
    Bits([i \in 1..32 |-> IF i + (k % 32) <= 32 THEN a[i + (k % 32)] ELSE a[32]])

JsAnd(x, y) == FromInt32(BitAnd(ToInt32(x), ToInt32(y)))
JsOr(x, y) == FromInt32(BitOr(ToInt32(x), ToInt32(y)))
JsXor(x, y) == FromInt32(BitXor(ToInt32(x), ToInt32(y)))
JsShl(x, k) == FromInt32(BitShl(ToInt32(x), k))
JsSar(x, k) == FromInt32(BitSar(ToInt32(x), k))

---------------------------------------------------------------------------
(* pixel-format/bit-depth                                                  *)

bitDepthParams(P) ==
    [mode |-> OrDefault(P, "mode", StrV("Posterize (reduce bits)")),
     bits |-> OrDefault(P, "bits", IntV(3))]

\* Math.round(Math.round(v / factor) * factor), factor = 255 / (levels - 1)
Posterize(v, levels) == Round(Round(v * (levels - 1), 255) * 255, levels - 1)

bitDepthPixel(img, q, x, y) ==
    LET p == PixelAt(img, x, y)
        bits == IntOf(q.bits)
        levels == 2 ^ bits
        mask == JsAnd(JsShl(255, 8 - bits), 255)
        m == q.mode
    IN  CASE Is(m, "Posterize (reduce bits)") ->
               Px(Number(Posterize(p.r.val, levels)), Number(Posterize(p.g.val, levels)),
                  Number(Posterize(p.b.val, levels)), p.a, p.reads)
          [] Is(m, "Simulate 16-bit as 8-bit") ->
               Px(Number(JsMod(p.r.val * 256, 256)), Number(JsMod(p.g.val * 256, 256)),
                  Number(JsMod(p.b.val * 256, 256)), p.a, p.reads)
          [] Is(m, "Bit truncation") ->
               Px(Number(JsAnd(p.r.val, mask)), Number(JsAnd(p.g.val, mask)),
                  Number(JsAnd(p.b.val, mask)), p.a, p.reads)
          [] OTHER -> Px(p.r, p.g, p.b, p.a, p.reads)

---------------------------------------------------------------------------
(* pixel-format/signed-unsigned                                            *)

signedUnsignedParams(P) ==
    [mode |-> OrDefault(P, "mode", StrV("Unsigned as Signed (bright becomes dark)"))]

\* one channel of 'Unsigned as Signed (bright becomes dark)'
AsSigned(v) ==
    LET s == IF v > 127 THEN v - 256 ELSE v
        u == IF s < 0 THEN 256 + s ELSE s
    IN  JsMod(u + 128, 256)

\* one channel of 'Normalize to signed (-1 to 1)'
NormalizeSigned(v) == Round((2 * v - 255) * 127 + 128 * 255, 255)

\* v > 127 ? 255 - v : v
Fold(v) == IF v > 127 THEN 255 - v ELSE v

signedUnsignedPixel(img, q, x, y) ==
    LET p == PixelAt(img, x, y)
        r == p.r.val
        g == p.g.val
        b == p.b.val
        m == q.mode
        out == CASE Is(m, "Unsigned as Signed (bright becomes dark)") ->
                      <<AsSigned(r), AsSigned(g), AsSigned(b)>>
                 [] Is(m, "Signed range visualization") ->
                      IF r > 127 \/ g > 127 \/ b > 127
                      THEN <<Fold(r), Fold(g), Fold(b)>> ELSE <<r, g, b>>
                 [] Is(m, "Normalize to signed (-1 to 1)") ->
                      <<NormalizeSigned(r), NormalizeSigned(g), NormalizeSigned(b)>>
                 [] Is(m, "Absolute value (fold negatives)") ->
                      <<Min(255, Fold(r) * 2), Min(255, Fold(g) * 2), Min(255, Fold(b) * 2)>>
                 [] OTHER -> <<r, g, b>>
    IN  Px(Number(Clamp(0, 255, out[1])), Number(Clamp(0, 255, out[2])),
           Number(Clamp(0, 255, out[3])), p.a, p.reads)

---------------------------------------------------------------------------
(* pixel-format/compression                                                *)

compressionParams(P) ==
    [blockSize |-> OrDefault(P, "blockSize", StrV("8x8 (JPEG)")),
     quality |-> OrDefault(P, "quality", IntV(3))]

\* the first character of the labels the model passes as blockSize
FirstChar(s) ==
    CASE s = "4x4 (DXT/BCn)" -> "4"
      [] s = "8x8 (JPEG)" -> "8"
      [] s = "16x16 (heavy)" -> "1"
      [] OTHER -> "?"

\* blockSizeStr.startsWith(c) exists on strings only
compressionThrows(q) == q.blockSize.kind # "string"

compressionBlockSize(q) ==
    IF FirstChar(q.blockSize.str) = "4" THEN 4
    ELSE IF FirstChar(q.blockSize.str) = "8" THEN 8 ELSE 16

RECURSIVE SumOver(_, _, _)
SumOver(S, data, c) ==
    IF S = {} THEN 0
    ELSE LET i == CHOOSE j \in S : TRUE
         IN  data[i + c + 1] + SumOver(S \ {i}, data, c)

\* one channel: quantize, then blend with the block average
compressionChannel(v, sum, count, quality, quantFactor) ==
    IF quantFactor = 0 THEN NaN
    ELSE LET quantized == Round(v, quantFactor) * quantFactor
             blended == Round(quantized * (9 + quality) * count + sum * (11 - quality),
                              20 * count)
         IN  Number(Clamp(0, 255, blended))

compressionPixel(img, q, x, y) ==
    LET width == img.width
        height == img.height
        data == img.data
        blockSize == compressionBlockSize(q)
        quality == IntOf(q.quality)
        quantFactor == 32 \div quality
        bx == (x \div blockSize) * blockSize
        by == (y \div blockSize) * blockSize
        block == {(yy * width + xx) * 4 :
                     xx \in bx..(Min(bx + blockSize, width) - 1),
                     yy \in by..(Min(by + blockSize, height) - 1)}
        count == Cardinality(block)
        p == PixelAt(img, x, y)
    IN  Px(compressionChannel(p.r.val, SumOver(block, data, 0), count, quality, quantFactor),
           compressionChannel(p.g.val, SumOver(block, data, 1), count, quality, quantFactor),
           compressionChannel(p.b.val, SumOver(block, data, 2), count, quality, quantFactor),
           p.a,
           p.reads \cup UNION {RdRange(i, 3, Len(data)) : i \in block})

---------------------------------------------------------------------------
(* pixel-format/premultiplied-alpha                                        *)

premultipliedAlphaParams(P) ==
    [mode |-> OrDefault(P, "mode", StrV("Straight as Premultiplied (dark fringes)")),
     backgroundR |-> OrDefault(P, "backgroundR", IntV(128)),
     backgroundG |-> OrDefault(P, "backgroundG", IntV(128)),
     backgroundB |-> OrDefault(P, "backgroundB", IntV(128))]

\* Math.round(Math.max(0, Math.min(1, n / (255 * d))) * 255)
Unit255(n, d) == IF n <= 0 THEN 0 ELSE IF n >= 255 * d THEN 255 ELSE Round(n, d)

\* one output channel; c, a are the channel and alpha bytes, bg the background
premultipliedAlphaChannel(m, c, a, bg, flagged, magenta) ==
    CASE Is(m, "Straight as Premultiplied (dark fringes)") ->
           Unit255(c * 255 + bg * (255 - a), 255)
      [] Is(m, "Premultiplied as Straight (too bright)") ->
           Unit255(c * a * a + bg * (255 - a) * 255, 255 * 255)
      [] Is(m, "Double premultiply") ->
           Unit255(c * a * a + bg * (255 - a) * 255, 255 * 255)
      [] Is(m, "Show alpha errors") /\ flagged -> magenta
      [] OTHER -> Unit255(c * a + bg * (255 - a), 255)

premultipliedAlphaPixel(img, q, x, y) ==
    LET p == PixelAt(img, x, y)
        r == p.r.val
        g == p.g.val
        b == p.b.val
        a == p.a.val
        maxRGB == Max(r, Max(g, b))
        flagged == a < 255 /\ 100 * maxRGB > 100 * a + 255
        m == q.mode
    IN  Px(Number(premultipliedAlphaChannel(m, r, a, IntOf(q.backgroundR), flagged, 255)),
           Number(premultipliedAlphaChannel(m, g, a, IntOf(q.backgroundG), flagged, 0)),
           Number(premultipliedAlphaChannel(m, b, a, IntOf(q.backgroundB), flagged, 255)),
           Number(255), p.reads)

---------------------------------------------------------------------------
(* coordinates/aspect-ratio                                                *)

aspectRatioParams(P) ==
    [mode |-> OrDefault(P, "mode", StrV("Swap Width/Height")),
     scaleX |-> OrDefault(P, "scaleX", IntV(1)),
     scaleY |-> OrDefault(P, "scaleY", IntV(1))]

\* Math.floor(center + (v - center) / scale), center = size / 2, scale = s / 100
WrongScale(v, size, s) ==
    IF s > 0 THEN (size * s + (2 * v - size) * 100) \div (2 * s)
    ELSE (0 - (size * s + (2 * v - size) * 100)) \div (0 - 2 * s)

aspectRatioPixel(img, q, x, y) ==
    LET width == img.width
        height == img.height
        m == q.mode
        maxDim == Max(width, height)
        src == CASE Is(m, "Swap Width/Height") ->
                      <<(y * (width - 1)) \div height, (x * (height - 1)) \div width>>
                 [] Is(m, "Force Square") ->
                      <<JsMod((x * maxDim) \div width, width),
                        JsMod((y * maxDim) \div height, height)>>
                 [] Is(m, "Wrong Aspect Scale") ->
                      <<Clamp(0, width - 1, WrongScale(x, width, q.scaleX.num)),
                        Clamp(0, height - 1, WrongScale(y, height, q.scaleY.num))>>
                 [] OTHER -> <<x, y>>
        srcX == Clamp(0, width - 1, src[1])
        srcY == Clamp(0, height - 1, src[2])
    IN  CopyPixel(img.data, (srcY * width + srcX) * 4)

---------------------------------------------------------------------------
(* getPixel and bilinear, the helpers half-pixel and sampling both define. *)
(* A sample coordinate is the fraction X / D.                              *)

\* getPixel(x, y) for integer x, y: the index it reads at
getPixelIdx(img, x, y) ==
    (Clamp(0, img.height - 1, y) * img.width + Clamp(0, img.width - 1, x)) * 4

getPixel(img, x, y) ==
    LET idx == getPixelIdx(img, x, y)
    IN  [c \in 1..4 |-> Get(img.data, idx + c - 1)]

getPixelReads(img, x, y) == RdRange(getPixelIdx(img, x, y), 4, Len(img.data))

\* the four corners bilinear(X / D, Y / D) samples
bilinearCorners(img, X, Y, D) ==
    LET x0 == X \div D
        y0 == Y \div D
        x1 == Min(x0 + 1, img.width - 1)
        y1 == Min(y0 + 1, img.height - 1)
    IN  <<<<x0, y0>>, <<x1, y0>>, <<x0, y1>>, <<x1, y1>>>>

bilinear(img, X, Y, D) ==
    LET k == bilinearCorners(img, X, Y, D)
        fx == X - D * (X \div D)
        fy == Y - D * (Y \div D)
        p00 == getPixel(img, k[1][1], k[1][2])
        p10 == getPixel(img, k[2][1], k[2][2])
        p01 == getPixel(img, k[3][1], k[3][2])
        p11 == getPixel(img, k[4][1], k[4][2])
    IN  [c \in 1..4 |->
            Round((p00[c].val * (D - fx) + p10[c].val * fx) * (D - fy)
                  + (p01[c].val * (D - fx) + p11[c].val * fx) * fy, D * D)]

bilinearReads(img, X, Y, D) ==
    LET k == bilinearCorners(img, X, Y, D)
    IN  UNION {getPixelReads(img, k[j][1], k[j][2]) : j \in 1..4}

---------------------------------------------------------------------------
(* coordinates/half-pixel                                                  *)

halfPixelParams(P) ==
    [offsetX |-> Nullish(P, "offsetX", NumV(50)),
     offsetY |-> Nullish(P, "offsetY", NumV(50)),
     useFiltering |-> BoolV(NotFalse(P, "useFiltering"))]

halfPixelPixel(img, q, x, y) ==
    LET sampleX == 100 * x + q.offsetX.num
        sampleY == 100 * y + q.offsetY.num
    IN  IF q.useFiltering.bool
        THEN LET pixel == bilinear(img, sampleX, sampleY, 100)
             IN  Px(Number(pixel[1]), Number(pixel[2]), Number(pixel[3]), Number(pixel[4]),
                    bilinearReads(img, sampleX, sampleY, 100))
        ELSE LET pixel == getPixel(img, sampleX \div 100, sampleY \div 100)
             IN  Px(pixel[1], pixel[2], pixel[3], pixel[4],
                    getPixelReads(img, sampleX \div 100, sampleY \div 100))

---------------------------------------------------------------------------
(* sampling/sampling                                                       *)

samplingParams(P) ==
    [mode |-> OrDefault(P, "mode", StrV("Nearest (blocky)")),
     scale |-> OrDefault(P, "scale", IntV(4))]

\* s[lo] + ... + s[hi]
RECURSIVE SumSeq(_, _, _)
SumSeq(s, lo, hi) ==
    IF lo > hi THEN 0
    ELSE IF lo = hi THEN s[lo]
    ELSE SumSeq(s, lo, (lo + hi) \div 2) + SumSeq(s, ((lo + hi) \div 2) + 1, hi)

\* 'Bad bilinear (blurry)': the average of samples * samples bilinear taps
badBilinear(img, samples, x, y) ==
    LET tap(k) == bilinear(img, 4 * x + 2 * ((k - 1) % samples) - samples,
                           4 * y + 2 * ((k - 1) \div samples) - samples, 4)
        count == samples * samples
    IN  [c \in 1..4 |-> Round(SumSeq([k \in 1..count |-> tap(k)[c]], 1, count), count)]

badBilinearReads(img, samples, x, y) ==
    UNION {bilinearReads(img, 4 * x + 2 * sx - samples, 4 * y + 2 * sy - samples, 4) :
              sx \in 0..(samples - 1), sy \in 0..(samples - 1)}

\* not the program: the two nearest modes sample past the start of the block
samplingPixelNextBlock(img, q, x, y) ==
    LET scale == IntOf(q.scale)
        m == q.mode
        nx == (x \div scale) * scale + scale
        ny == (y \div scale) * scale + (scale \div 2)
        px == (x \div scale) * scale + 1
        py == (y \div scale) * scale
    IN  CASE Is(m, "Nearest (blocky)") ->
               LET pixel == getPixel(img, nx, ny)
               IN  Px(pixel[1], pixel[2], pixel[3], pixel[4], getPixelReads(img, nx, ny))
          [] Is(m, "Exaggerated nearest (pixelate)") ->
               LET pixel == getPixel(img, px, py)
               IN  Px(pixel[1], pixel[2], pixel[3], pixel[4], getPixelReads(img, px, py))
          [] Is(m, "Bad bilinear (blurry)") ->
               LET pixel == badBilinear(img, scale, x, y)
               IN  Px(Number(pixel[1]), Number(pixel[2]), Number(pixel[3]), Number(pixel[4]),
                      badBilinearReads(img, scale, x, y))
          [] OTHER ->
               LET pixel == getPixel(img, x, y)
               IN  Px(pixel[1], pixel[2], pixel[3], pixel[4], getPixelReads(img, x, y))

samplingPixel(img, q, x, y) ==
    LET scale == IntOf(q.scale)
        m == q.mode
        nx == (x \div scale) * scale + (scale \div 2)
        ny == (y \div scale) * scale + (scale \div 2)
        px == (x \div scale) * scale
        py == (y \div scale) * scale
    IN  CASE Is(m, "Nearest (blocky)") ->
               LET pixel == getPixel(img, nx, ny)
               IN  Px(pixel[1], pixel[2], pixel[3], pixel[4], getPixelReads(img, nx, ny))
          [] Is(m, "Exaggerated nearest (pixelate)") ->
               LET pixel == getPixel(img, px, py)
               IN  Px(pixel[1], pixel[2], pixel[3], pixel[4], getPixelReads(img, px, py))
          [] Is(m, "Bad bilinear (blurry)") ->
               LET pixel == badBilinear(img, scale, x, y)
               IN  Px(Number(pixel[1]), Number(pixel[2]), Number(pixel[3]), Number(pixel[4]),
                      badBilinearReads(img, scale, x, y))
          [] OTHER ->
               LET pixel == getPixel(img, x, y)
               IN  Px(pixel[1], pixel[2], pixel[3], pixel[4], getPixelReads(img, x, y))

---------------------------------------------------------------------------
(* coordinates/uv-wrapping.  A texture coordinate u is the fraction n / d. *)

uvWrappingParams(P) ==
    [wrapMode |-> OrDefault(P, "wrapMode", StrV("Repeat")),
     uvScale |-> OrDefault(P, "uvScale", IntV(2)),
     uvOffsetX |-> OrDefault(P, "uvOffsetX", IntV(0)),
     uvOffsetY |-> OrDefault(P, "uvOffsetY", IntV(0))]

Abs(a) == IF a < 0 THEN 0 - a ELSE a

\* u % 1 alone, which keeps the sign of u
RepeatSigned(n, d) == JsMod(n, d)

\* ((u % 1) + 1) % 1
Repeat(n, d) == JsMod(JsMod(n, d) + d, d)

\* 'Mirror', uvScale = s / 100
Mirror(n, d, s) ==
    LET u == Abs(JsMod(JsMod(n, 2 * d) + 2 * d, 2 * d) - d)
        phase == Abs(u * s) \div (d * 100)
    IN  Repeat(IF phase % 2 = 1 THEN d - u ELSE u, d)

\* the numerator of the wrapped coordinate
Wrap(m, n, d, s) ==
    CASE Is(m, "Repeat") -> Repeat(n, d)
      [] Is(m, "Mirror") -> Mirror(n, d, s)
      [] Is(m, "Clamp") -> Clamp(0, d, n)
      [] OTHER -> n

\* srcX and srcY of the loop body for output pixel (x, y)
uvWrappingSrc(img, q, x, y) ==
    LET width == img.width
        height == img.height
        s == q.uvScale.num
        un == x * s + q.uvOffsetX.num * width
        ud == 100 * width
        vn == y * s + q.uvOffsetY.num * height
        vd == 100 * height
        m == q.wrapMode
    IN  <<(Wrap(m, un, ud, s) * (width - 1)) \div ud, (Wrap(m, vn, vd, s) * (height - 1)) \div vd>>

\* 'None (shows bug)': u < 0 || u > 1 || v < 0 || v > 1
uvWrappingOutside(img, q, x, y) ==
    LET un == x * q.uvScale.num + q.uvOffsetX.num * img.width
        vn == y * q.uvScale.num + q.uvOffsetY.num * img.height
    IN  un < 0 \/ un > 100 * img.width \/ vn < 0 \/ vn > 100 * img.height

\* the copy from the source coordinates
uvWrappingCopy(img, src) == CopyPixel(img.data, (src[2] * img.width + src[1]) * 4)

uvWrappingPixel(img, q, x, y) ==
    IF Is(q.wrapMode, "None (shows bug)") /\ uvWrappingOutside(img, q, x, y)
    THEN Px(Number(255), Number(0), Number(255), Number(255), {})
    ELSE uvWrappingCopy(img, uvWrappingSrc(img, q, x, y))

---------------------------------------------------------------------------
(* sampling/mipmap                                                         *)

mipmapParams(P) ==
    [mode |-> OrDefault(P, "mode", StrV("Too blurry (high LOD)")),
     lodBias |-> OrDefault(P, "lodBias", IntV(2))]

\* a filter that takes the top-left pixel of the 2x2 block alone
boxTapsCorner(prevMip, x, y) == {((2 * y) * prevMip.width + 2 * x) * 4}

\* the source indices of the box filter for pixel (x, y) of the next level
boxTaps(prevMip, x, y) ==
    {((2 * y + dy) * prevMip.width + (2 * x + dx)) * 4 :
        dx \in {d \in 0..1 : 2 * x + d < prevMip.width},
        dy \in {d \in 0..1 : 2 * y + d < prevMip.height}}

\* a downsample whose size is rounded up, not down
downsampleCeil(prevMip) ==
    LET newW == Max(1, (prevMip.width + 1) \div 2)
        newH == Max(1, (prevMip.height + 1) \div 2)
        byte(k) ==
            LET pixel == (k - 1) \div 4
                taps == boxTaps(prevMip, pixel % newW, pixel \div newW)
            IN  Round(SumOver(taps, prevMip.data, (k - 1) % 4), Cardinality(taps))
    IN  [width |-> newW, height |-> newH, data |-> [k \in 1..(newW * newH * 4) |-> byte(k)]]

\* the next level of the chain: a box filter downsample of prevMip
downsample(prevMip) ==
    LET newW == Max(1, prevMip.width \div 2)
        newH == Max(1, prevMip.height \div 2)
        byte(k) ==
            LET pixel == (k - 1) \div 4
                taps == boxTaps(prevMip, pixel % newW, pixel \div newW)
            IN  Round(SumOver(taps, prevMip.data, (k - 1) % 4), Cardinality(taps))
    IN  [width |-> newW, height |-> newH, data |-> [k \in 1..(newW * newH * 4) |-> byte(k)]]

RECURSIVE mipChain(_)
mipChain(levels) ==
    LET last == levels[Len(levels)]
    IN  IF last.width > 1 \/ last.height > 1
        THEN mipChain(Append(levels, downsample(last)))
        ELSE levels

\* mipLevels: level 0 is the input bitmap itself
mipLevels(img) == mipChain(<<[width |-> img.width, height |-> img.height, data |-> img.data]>>)

\* every read the box filters make while the chain is built
chainReads(levels) ==
    UNION {UNION {UNION {RdRange(i, 4, Len(levels[l].data)) :
                            i \in boxTaps(levels[l], x, y)} :
                     x \in 0..(levels[l + 1].width - 1),
                     y \in 0..(levels[l + 1].height - 1)} :
              l \in 1..(Len(levels) - 1)}

mipChainReads(img) == chainReads(mipLevels(img))

mipColors ==
    <<<<255, 0, 0>>, <<0, 255, 0>>, <<0, 0, 255>>, <<255, 255, 0>>,
      <<255, 0, 255>>, <<0, 255, 255>>, <<255, 128, 0>>, <<128, 0, 255>>>>

\* not the program: the level without the clamp to the chain
mipLevelUnclamped(len, q, x, y) ==
    IF Is(q.mode, "Wrong mip level") THEN ((x + y) \div 32) % len ELSE q.lodBias.num \div 100

\* the index into a chain of len levels the loop body computes for output
\* pixel (x, y)
mipLevelIn(len, q, x, y) ==
    CASE Is(q.mode, "Too blurry (high LOD)") -> Min(len - 1, q.lodBias.num \div 100)
      [] Is(q.mode, "Aliased (low LOD)") -> 0
      [] Is(q.mode, "Wrong mip level") -> ((x + y) \div 32) % len
      [] Is(q.mode, "Visualize mip levels") -> Min(len - 1, q.lodBias.num \div 100)
      [] OTHER -> 0

mipLevelOf(img, q, x, y) == mipLevelIn(Len(mipLevels(img)), q, x, y)

\* mipLevels[mipLevel] is undefined
Missing(mipLevel, len) == mipLevel < 0 \/ mipLevel >= len

\* mipLevels[mipLevel] is undefined: reading mip.width throws a TypeError
mipmapThrows(img, q) ==
    \E x \in 0..(img.width - 1), y \in 0..(img.height - 1) :
        Missing(mipLevelOf(img, q, x, y), Len(mipLevels(img)))

Tint(v, c) == IF v.tag = "number" THEN Number(Round(v.val + c, 2)) ELSE NaN

\* the stores for output pixel (x, y), sampled from the level mip
mipmapSample(q, mip, mipLevel, x, y, reads) ==
    LET scale == 2 ^ mipLevel
        srcX == (x \div scale) % mip.width
        srcY == (y \div scale) % mip.height
        srcIdx == (srcY * mip.width + srcX) * 4
        color == mipColors[(mipLevel % Len(mipColors)) + 1]
    IN  IF Is(q.mode, "Visualize mip levels")
        THEN Px(Tint(Get(mip.data, srcIdx), color[1]), Tint(Get(mip.data, srcIdx + 1), color[2]),
                Tint(Get(mip.data, srcIdx + 2), color[3]), Number(255),
                RdRange(srcIdx, 3, Len(mip.data)) \cup reads)
        ELSE Px(Get(mip.data, srcIdx), Get(mip.data, srcIdx + 1), Get(mip.data, srcIdx + 2),
                Number(255), RdRange(srcIdx, 3, Len(mip.data)) \cup reads)

mipmapAt(img, q, mipLevel, x, y) ==
    mipmapSample(q, mipLevels(img)[mipLevel + 1], mipLevel, x, y, mipChainReads(img))

mipmapPixel(img, q, x, y) == mipmapAt(img, q, mipLevelOf(img, q, x, y), x, y)

---------------------------------------------------------------------------
(* memory-layout/swizzle                                                   *)

swizzleParams(P) ==
    [pattern |-> OrDefault(P, "pattern", StrV("Morton (Z-order)")),
     inverse |-> BoolV(OrFalse(P, "inverse"))]

\* the highest bit of a coordinate y for which splitBits(y) << 1 is not a
\* negative int32
MaxBit == 14

\* x = (x | (x << s)) & mask
Spread(x, s, mask) == JsAnd(JsOr(x, JsShl(x, s)), mask)

splitBits(x) ==
    Spread(Spread(Spread(Spread(x, 8, 16711935), 4, 252645135), 2, 858993459), 1, 1431655765)

mortonEncode(x, y) == JsOr(splitBits(x), JsShl(splitBits(y), 1))

\* x = (x | (x >> s)) & mask
Compact(x, s, mask) == JsAnd(JsOr(x, JsSar(x, s)), mask)

\* a compaction that stops before the step that joins the two bytes
compactBitsShort(x) ==
    Compact(Compact(Compact(JsAnd(x, 1431655765), 1, 858993459), 2, 252645135), 4, 16711935)

compactBits(x) ==
    Compact(Compact(Compact(Compact(JsAnd(x, 1431655765), 1, 858993459), 2, 252645135),
                    4, 16711935), 8, 65535)

mortonDecode(code) == <<compactBits(code), compactBits(JsSar(code, 1))>>

\* Math.ceil(a / b) for a >= 0, b > 0
CeilDiv(a, b) == (a + b - 1) \div b

\* inverse, 'Tiled NxN': the linear index of (x, y) in tile order
tiledIndex(x, y, width, n) ==
    ((y \div n) * CeilDiv(width, n) + (x \div n)) * (n * n) + (y % n) * n + (x % n)

\* tile order read column by column inside a tile
tiledCoordsTransposed(i, width, n) ==
    LET tile == i \div (n * n)
        inTile == i % (n * n)
        tilesPerRow == CeilDiv(width, n)
    IN  <<(tile % tilesPerRow) * n + (inTile \div n), (tile \div tilesPerRow) * n + (inTile % n)>>

\* forward, 'Tiled NxN': the coordinates of linear index i in tile order
tiledCoords(i, width, n) ==
    LET tile == i \div (n * n)
        inTile == i % (n * n)
        tilesPerRow == CeilDiv(width, n)
    IN  <<(tile % tilesPerRow) * n + (inTile % n), (tile \div tilesPerRow) * n + (inTile \div n)>>

\* the pixel the linear index i names, i wrapped into the bitmap
Linear(i, width, height) == <<(i % (width * height)) % width, (i % (width * height)) \div width>>

\* the coordinates c wrapped into the bitmap
Wrapped(c, width, height) == <<c[1] % width, c[2] % height>>

swizzleSrc(img, q, x, y) ==
    LET width == img.width
        height == img.height
        m == q.pattern
    IN  IF q.inverse.bool
        THEN CASE Is(m, "Morton (Z-order)") -> Linear(mortonEncode(x, y), width, height)
               [] Is(m, "Tiled 8x8") -> Linear(tiledIndex(x, y, width, 8), width, height)
               [] Is(m, "Tiled 4x4") -> Linear(tiledIndex(x, y, width, 4), width, height)
               [] Is(m, "Interleaved rows") ->
                    <<x, IF y % 2 = 0 THEN y \div 2 ELSE (y \div 2) + (height \div 2)>>
               [] OTHER -> <<x, y>>
        ELSE CASE Is(m, "Morton (Z-order)") -> Wrapped(mortonDecode(y * width + x), width, height)
               [] Is(m, "Tiled 8x8") -> tiledCoords(y * width + x, width, 8)
               [] Is(m, "Tiled 4x4") -> tiledCoords(y * width + x, width, 4)
               [] Is(m, "Interleaved rows") ->
                    <<x, IF 2 * y < height THEN y * 2 ELSE (y - (height \div 2)) * 2 + 1>>
               [] OTHER -> <<x, y>>

\* the copy from the source coordinates, clamped into the bitmap
swizzleCopy(img, src) ==
    CopyPixel(img.data,
              (Clamp(0, img.height - 1, src[2]) * img.width + Clamp(0, img.width - 1, src[1])) * 4)

swizzlePixel(img, q, x, y) == swizzleCopy(img, swizzleSrc(img, q, x, y))

---------------------------------------------------------------------------
(* Integers beyond 32 bits.  An unsigned 32-bit integer is kept as two     *)
(* 16-bit halves [hi, lo]; a product is computed in base 4096.  A double   *)
(* keeps 53 significant bits: a larger integer is rounded to the nearest   *)
(* representable one, ties to even.                                        *)

WordOf(u) == NatBits(u.lo, 16) \o NatBits(u.hi, 16)
Halves(w) == [hi |-> BitsVal(w, 17, 32), lo |-> BitsVal(w, 1, 16)]

\* -u modulo 2^32
Negate(u) ==
    [hi |-> (65535 - u.hi + (IF u.lo = 0 THEN 1 ELSE 0)) % 65536, lo |-> (65536 - u.lo) % 65536]

\* number of bits of n: the least k with n < 2^k
RECURSIVE BitLength(_)
BitLength(n) == IF n = 0 THEN 0 ELSE 1 + BitLength(n \div 2)

\* the digits of k in a base, least significant first
RECURSIVE DigitsIn(_, _)
DigitsIn(k, base) == IF k = 0 THEN <<>> ELSE <<k % base>> \o DigitsIn(k \div base, base)

\* carry propagation: the digits of the number with these column sums
RECURSIVE Carry(_, _, _)
Carry(cols, carry, base) ==
    IF cols = <<>> THEN DigitsIn(carry, base)
    ELSE <<(Head(cols) + carry) % base>>
         \o Carry(Tail(cols), (Head(cols) + carry) \div base, base)

\* the base-4096 digits, least significant first, of m < 2^32 given as
\* halves, and of c < 2^31
HalvesDigits(m) == <<m.lo % 4096, (m.lo \div 4096) + (m.hi % 256) * 16, m.hi \div 256>>
Digits(c) == <<c % 4096, (c \div 4096) % 4096, c \div 16777216>>

\* the column sums of the product of two three-digit numbers
Columns(m, c) ==
    <<m[1] * c[1],
      m[1] * c[2] + m[2] * c[1],
      m[1] * c[3] + m[2] * c[2] + m[3] * c[1],
      m[2] * c[3] + m[3] * c[2],
      m[3] * c[3],
      0>>

\* number of bits of a six-digit product of at least 48 bits
ProductBits(d) ==
    IF d[6] > 0 THEN 60 + BitLength(d[6])
    ELSE IF d[5] > 0 THEN 48 + BitLength(d[5]) ELSE 48

\* the low digit of d after the bits below position drop are rounded away,
\* ties to even; it may reach 4096, a carry into the next digit
RoundedDigit(d0, drop) ==
    LET rest == d0 % (2 ^ drop)
        half == (2 ^ drop) \div 2
        odd == (d0 \div (2 ^ drop)) % 2 = 1
    IN  IF drop >= 1 /\ (rest > half \/ (rest = half /\ odd))
        THEN d0 - rest + 2 ^ drop
        ELSE d0 - rest

\* the low 32 bits, as halves, of the number with digits r0 (up to 4096),
\* d1, d2
LowWord(r0, d1, d2) ==
    LET r1 == d1 + (r0 \div 4096)
        low24 == (r0 % 4096) + 4096 * (r1 % 4096)
    IN  [hi |-> (low24 \div 65536) + 256 * ((d2 + (r1 \div 4096)) % 256), lo |-> low24 % 65536]

\* the double nearest to the product with digits d keeps its 53 leading bits
Rounded(d) == LowWord(RoundedDigit(d[1], Max(0, ProductBits(d) - 53)), d[2], d[3])

\* ToUint32 of the double nearest to m * c, for m < 2^32 given as halves
\* and 0 < c < 2^31
MulRounded(m, c) == Rounded(Carry(Columns(HalvesDigits(m), Digits(c)), 0, 4096))

\* ToInt32 of the double nearest to w * c, w a two's complement word
MulToInt32(w, c) ==
    IF w[32] = 1 THEN WordOf(Negate(MulRounded(Negate(Halves(w)), c)))
    ELSE WordOf(MulRounded(Halves(w), c))

---------------------------------------------------------------------------
(* pixel-format/float-precision                                            *)

floatPrecisionParams(P) ==
    [mode |-> OrDefault(P, "mode", StrV("NaN holes (black spots)")),
     intensity |-> OrDefault(P, "intensity", IntV(5))]

\* ToInt32(x * 374761393 + y * 668265263) for 0 <= x, y < 4096: the sum is
\* below 2^53, so the double holds it exactly
hashSeed(x, y) ==
    LET lo == x * (374761393 % 65536) + y * (668265263 % 65536)
        hi == x * (374761393 \div 65536) + y * (668265263 \div 65536) + (lo \div 65536)
    IN  WordOf([hi |-> hi % 65536, lo |-> lo % 65536])

\* h = (h ^ (h >> 13)) * 1274126177, as the next bit operation sees it
hashScramble(h) == MulToInt32(BitXor(h, BitSar(h, 13)), 1274126177)

\* h ^ (h >> 16)
hashFold(h) == BitXor(h, BitSar(h, 16))

\* h / 4294967296 + 1
hashUnitPlusOne(h) ==
    [hi |-> Halves(Bits([i \in 1..32 |-> IF i = 32 THEN 1 - h[i] ELSE h[i]])).hi + 32768,
     lo |-> Halves(h).lo]

\* h / 4294967296 + 0.5: adding 2^31 flips the sign bit.  The result times
\* 2^32 is an unsigned 32-bit integer, returned as halves.
hashUnit(h) == Halves(Bits([i \in 1..32 |-> IF i = 32 THEN 1 - h[i] ELSE h[i]]))

hashMix(h) == hashUnit(hashFold(hashScramble(h)))

\* not the program: a hash that moves with the number of live bitmaps
hashStateful(x, y) == hashMix(hashSeed(x + Cardinality(DOMAIN heap) - 1, y))

hash(x, y) == hashMix(hashSeed(x, y))

\* hash < num / den, for den * 65536 and num * 65536 below 2^31
HashLess(hv, num, den) == den * hv.hi + ((den * hv.lo) \div 65536) < num * 65536

\* Math.floor(hash * k), k a power of two up to 65536
HashFloor(hv, k) == hv.hi \div (65536 \div k)

\* 'Infinity clipping': one channel, F / 1500 the overflow factor, cap the
\* level the channel clips at
Overflowed(v, F, cap) == IF v * F > cap * 1500 THEN cap ELSE Round(v * F, 1500)

\* 'Precision banding': one channel
Banded(v, precision) ==
    LET quant == Max(1, precision - (v \div 32))
    IN  Round(v, quant) * quant

\* 'Denormal visualization': one channel, n = 100 * intensity
Denormal(v, n) == IF 100 * v < n THEN (IF v > 0 THEN 128 ELSE 0) ELSE v

\* 'Random corruption' of a pixel the hash selected, by its corruptType
Garbage(corruptType, x, y) ==
    CASE corruptType = 0 -> <<0, 0, 0>>
      [] corruptType = 1 -> <<255, 255, 255>>
      [] corruptType = 2 -> <<255, 0, 255>>
      [] OTHER -> <<HashFloor(hash(x, y + 1), 256), HashFloor(hash(x + 1, y), 256),
                    HashFloor(hash(x + 1, y + 1), 256)>>

Corrupted(x, y) == Garbage(HashFloor(hash(x + 100, y), 4), x, y)

\* r, g, b after the switch on the mode m, n = 100 * intensity
floatPrecisionRgb(m, n, r, g, b, x, y) ==
    CASE Is(m, "NaN holes (black spots)") ->
           IF (10 * (r + g + b) < 3 * n \/ 10 * (r + g + b) > 7650 - 3 * n)
              /\ HashLess(hash(x, y), n, 2000)
           THEN <<0, 0, 0>> ELSE <<r, g, b>>
      [] Is(m, "Infinity clipping") ->
           IF 10 * (r + g + b) > 7650 - 3 * n
           THEN LET F == 10 * (r + g + b) + 3 * n - 6150
                IN  <<Overflowed(r, F, 255), Overflowed(g, F, 250), Overflowed(b, F, 245)>>
           ELSE <<r, g, b>>
      [] Is(m, "Precision banding") ->
           LET precision == Max(1, (3 * n) \div 100)
           IN  <<Banded(r, precision), Banded(g, precision), Banded(b, precision)>>
      [] Is(m, "Denormal visualization") ->
           <<Denormal(r, n), Denormal(g, n), Denormal(b, n)>>
      [] Is(m, "Random corruption") ->
           IF HashLess(hash(x, y), n, 10000) THEN Corrupted(x, y) ELSE <<r, g, b>>
      [] OTHER -> <<r, g, b>>

\* the stores: r, g, b rounded and clamped, alpha copied
floatPrecisionStore(p, out) ==
    Px(Number(Clamp(0, 255, out[1])), Number(Clamp(0, 255, out[2])),
       Number(Clamp(0, 255, out[3])), p.a, p.reads)

floatPrecisionLoad(p, q, x, y) ==
    floatPrecisionStore(p, floatPrecisionRgb(q.mode, q.intensity.num,
                                             p.r.val, p.g.val, p.b.val, x, y))

floatPrecisionPixel(img, q, x, y) == floatPrecisionLoad(PixelAt(img, x, y), q, x, y)

---------------------------------------------------------------------------
(* Exact arithmetic for the transforms that compute in floating point.     *)
(* A natural number is a sequence of base-10000 digits, least significant  *)
(* first, <<>> being zero; a rational is (p - n) / d with p, n, d natural. *)

BigOf(k) == DigitsIn(k, 10000)

Digit(a, i) == IF i <= Len(a) THEN a[i] ELSE 0

BigAdd(a, b) ==
    Carry(Bits([i \in 1..Max(Len(a), Len(b)) |-> Digit(a, i) + Digit(b, i)]), 0, 10000)

\* a * c for 0 <= c < 200000
BigMulSmall(a, c) ==
    IF c = 0 THEN <<>> ELSE Carry(Bits([i \in 1..Len(a) |-> a[i] * c]), 0, 10000)

\* row * 10000^n
Shifted(row, n) == IF row = <<>> THEN <<>> ELSE Bits([j \in 1..n |-> 0]) \o row

RECURSIVE BigMulFrom(_, _, _)
BigMulFrom(a, b, i) ==
    IF i > Len(b) THEN <<>>
    ELSE BigAdd(Shifted(BigMulSmall(a, b[i]), i - 1), BigMulFrom(a, b, i + 1))

BigMul(a, b) == BigMulFrom(a, b, 1)

\* a <= b
BigLeq(a, b) ==
    \/ Len(a) < Len(b)
    \/ /\ Len(a) = Len(b)
       /\ \/ a = b
          \/ \E i \in 1..Len(a) : a[i] < b[i] /\ \A j \in (i + 1)..Len(a) : a[j] = b[j]

Q(p, n, d) == [p |-> p, n |-> n, d |-> d]
\* the rational k / den for integers k and den > 0
QDec(k, den) == Q(BigOf(Max(k, 0)), BigOf(Max(0 - k, 0)), BigOf(den))
QInt(k) == QDec(k, 1)
\* x with numerators and denominator multiplied by k
QScaled(x, k) == [f \in DOMAIN x |-> BigMul(x[f], k)]
\* x + y for x.d = y.d
QSum(x, y) == [f \in DOMAIN x |-> IF f = "d" THEN x.d ELSE BigAdd(x[f], y[f])]
\* what brings x to the denominator it shares with y
Cofactor(x, y) == IF x.d = y.d THEN BigOf(1) ELSE y.d
QAdd(x, y) == QSum(QScaled(x, Cofactor(x, y)), QScaled(y, Cofactor(y, x)))
QNeg(x) == Q(x.n, x.p, x.d)
QSub(x, y) == QAdd(x, QNeg(y))
\* x * num / den for 0 <= num, 0 < den < 200000
QRatio(x, num, den) == [f \in DOMAIN x |-> BigMulSmall(x[f], IF f = "d" THEN den ELSE num)]

\* Math.round(x) >= k, that is x >= k - 1/2
QRoundsTo(x, k) ==
    BigLeq(BigAdd(BigMulSmall(x.d, 2 * k - 1), BigMulSmall(x.n, 2)), BigMulSmall(x.p, 2))

\* Math.round(x) within lo..hi, given Math.round(x) >= lo: a bisection
RECURSIVE QRoundWithin(_, _, _)
QRoundWithin(x, lo, hi) ==
    IF lo = hi THEN lo
    ELSE IF QRoundsTo(x, (lo + hi + 1) \div 2)
         THEN QRoundWithin(x, (lo + hi + 1) \div 2, hi)
         ELSE QRoundWithin(x, lo, ((lo + hi + 1) \div 2) - 1)

\* Math.max(0, Math.min(255, Math.round(x)))
QRoundClamp(x) == IF ~QRoundsTo(x, 1) THEN 0 ELSE QRoundWithin(x, 1, 255)

---------------------------------------------------------------------------
(* pixel-format/yuv                                                        *)

yuvParams(P) == [mode |-> OrDefault(P, "mode", StrV("YUV interpreted as RGB"))]

\* a decimal constant with four places times a rational
Times(c, x) == IF c >= 0 THEN QRatio(x, c, 10000) ELSE QNeg(QRatio(x, 0 - c, 10000))

\* RGB to YUV (BT.709), of rational r, g, b
rgbToYuvQ(r, g, b) ==
    <<QAdd(QAdd(Times(2126, r), Times(7152, g)), Times(722, b)),
      QAdd(QAdd(QSub(Times(0 - 1146, r), Times(3854, g)), Times(5000, b)), QInt(128)),
      QAdd(QSub(QSub(Times(5000, r), Times(4542, g)), Times(458, b)), QInt(128))>>

rgbToYuv(r, g, b) == rgbToYuvQ(QInt(r), QInt(g), QInt(b))

\* r = y + k1 * cv, g = y - k2 * cu - k3 * cv, b = y + k4 * cu, for the
\* centred chroma cu = u - 128, cv = v - 128
Matrix(k, y, cu, cv) ==
    <<QAdd(y, Times(k[1], cv)),
      QSub(QSub(y, Times(k[2], cu)), Times(k[3], cv)),
      QAdd(y, Times(k[4], cu))>>

\* YUV to RGB (BT.709)
yuvToRgb(y, u, v) ==
    Matrix(<<15748, 1873, 4681, 18556>>, y, QSub(u, QInt(128)), QSub(v, QInt(128)))

\* the BT.601 matrix
yuvToRgbWrong(y, u, v) ==
    Matrix(<<14020, 3440, 7140, 17720>>, y, QSub(u, QInt(128)), QSub(v, QInt(128)))

\* (v - 16) * 255 / range
Limited(v, range) == QRatio(QSub(v, QInt(16)), 255, range)

\* 'Missing chroma (grayscale bleed)': index of the corner of the 4x4 block
cornerIdx(img, x, y) == ((y \div 4) * 4 * img.width + (x \div 4) * 4) * 4

\* data[i] ?? v
OrElse(data, i, v) == IF Get(data, i).tag = "number" THEN Get(data, i).val ELSE v

\* outR, outG, outB after the switch on the mode m
yuvOut(m, yuv, cornerYuv, rgb) ==
    CASE Is(m, "YUV interpreted as RGB") -> yuv
      [] Is(m, "Swapped U/V (green/purple)") -> yuvToRgb(yuv[1], yuv[3], yuv[2])
      [] Is(m, "Wrong range (washed out)") ->
           yuvToRgb(Limited(yuv[1], 219), Limited(yuv[2], 224), Limited(yuv[3], 224))
      [] Is(m, "Wrong matrix (color shift)") -> yuvToRgbWrong(yuv[1], yuv[2], yuv[3])
      [] Is(m, "Missing chroma (grayscale bleed)") ->
           yuvToRgb(yuv[1], cornerYuv[2], cornerYuv[3])
      [] OTHER -> rgb

\* the stores: outR, outG, outB rounded and clamped, alpha copied
yuvStore(p, out, reads) ==
    Px(Number(QRoundClamp(out[1])), Number(QRoundClamp(out[2])),
       Number(QRoundClamp(out[3])), p.a, reads)

yuvLoad(img, m, p, corner) ==
    yuvStore(p,
             yuvOut(m, rgbToYuv(p.r.val, p.g.val, p.b.val),
                    rgbToYuv(OrElse(img.data, corner, p.r.val),
                             OrElse(img.data, corner + 1, p.g.val),
                             OrElse(img.data, corner + 2, p.b.val)),
                    <<QInt(p.r.val), QInt(p.g.val), QInt(p.b.val)>>),
             IF Is(m, "Missing chroma (grayscale bleed)")
             THEN p.reads \cup RdRange(corner, 3, Len(img.data)) ELSE p.reads)

yuvPixel(img, q, x, y) == yuvLoad(img, q.mode, PixelAt(img, x, y), cornerIdx(img, x, y))

---------------------------------------------------------------------------
(* pixel-format/gamma.  Math.pow(v / 255, e) for a rational exponent       *)
(* e = p / q is compared with k / 510 by comparing integer powers.         *)

gammaParams(P) ==
    [mode |-> OrDefault(P, "mode", StrV("sRGB treated as Linear (washed out)")),
     gamma |-> OrDefault(P, "gamma", NumV(220))]

RECURSIVE GCD(_, _)
GCD(a, b) == IF b = 0 THEN a ELSE GCD(b, a % b)

\* a * c^t
RECURSIVE BigTimesPow(_, _, _)
BigTimesPow(a, c, t) == IF t = 0 \/ a = <<>> THEN a ELSE BigTimesPow(BigMulSmall(a, c), c, t - 1)

\* Math.round(255 * Math.pow(v / 255, p / q)) >= k for 0 < v, given
\* rhs = v^p * 510^q
PowRoundsTo(rhs, p, q, k) == BigLeq(BigTimesPow(BigTimesPow(BigOf(1), 255, p), 2 * k - 1, q), rhs)

RECURSIVE PowRoundWithin(_, _, _, _, _)
PowRoundWithin(rhs, p, q, lo, hi) ==
    IF lo = hi THEN lo
    ELSE LET mid == (lo + hi + 1) \div 2
         IN  IF PowRoundsTo(rhs, p, q, mid) THEN PowRoundWithin(rhs, p, q, mid, hi)
             ELSE PowRoundWithin(rhs, p, q, lo, mid - 1)

\* Math.round(Math.max(0, Math.min(1, Math.pow(v / 255, num / den))) * 255)
\* for num, den > 0
PowChannel(v, num, den) ==
    LET p == num \div GCD(num, den)
        q == den \div GCD(num, den)
    IN  IF v = 0 THEN 0
        ELSE PowRoundWithin(BigTimesPow(BigTimesPow(BigOf(1), v, p), 510, q), p, q, 0, 255)

\* the exponents of the two first modes exchanged
gammaExponentExchanged(m, n) ==
    CASE Is(m, "sRGB treated as Linear (washed out)") -> <<n, 100>>
      [] Is(m, "Linear treated as sRGB (too dark)") -> <<100, n>>
      [] Is(m, "Double gamma") -> <<n, 110>>
      [] Is(m, "Inverse gamma") -> <<22000, n * n>>
      [] OTHER -> <<1, 1>>

\* the exponent of each mode as <<numerator, denominator>>, gamma = n / 100
gammaExponent(m, n) ==
    CASE Is(m, "sRGB treated as Linear (washed out)") -> <<100, n>>
      [] Is(m, "Linear treated as sRGB (too dark)") -> <<n, 100>>
      [] Is(m, "Double gamma") -> <<n, 110>>
      [] Is(m, "Inverse gamma") -> <<22000, n * n>>
      [] OTHER -> <<1, 1>>

gammaPixel(img, q, x, y) ==
    LET p == PixelAt(img, x, y)
        e == gammaExponent(q.mode, q.gamma.num)
    IN  Px(Number(PowChannel(p.r.val, e[1], e[2])), Number(PowChannel(p.g.val, e[1], e[2])),
           Number(PowChannel(p.b.val, e[1], e[2])), p.a, p.reads)

---------------------------------------------------------------------------
(* The catalog (glitches/index.ts) and the parameter schema each transform *)
(* declares (its `params` array).  Numbers are in hundredths.              *)

\* not the program: a catalog in which signedUnsigned carries the id of
\* bitDepth
glitchesSharedId ==
    <<"rgba-as-rgb", "rgb-as-rgba", "bgr-swap", "argb-order", "endianness",
      "channel-shift", "bit-depth", "gamma", "premultiplied-alpha", "bit-depth",
      "compression", "yuv", "float-precision", "wrong-stride", "wrong-pitch",
      "row-padding", "alignment", "swizzle", "off-by-one", "flipped-axis",
      "uv-wrapping", "aspect-ratio", "sampling", "half-pixel", "mipmap">>

glitches ==
    <<"rgba-as-rgb", "rgb-as-rgba", "bgr-swap", "argb-order", "endianness",
      "channel-shift", "bit-depth", "gamma", "premultiplied-alpha", "signed-unsigned",
      "compression", "yuv", "float-precision", "wrong-stride", "wrong-pitch",
      "row-padding", "alignment", "swizzle", "off-by-one", "flipped-axis",
      "uv-wrapping", "aspect-ratio", "sampling", "half-pixel", "mipmap">>

Range(name, min, max, step, default) ==
    [name |-> name, type |-> "range", min |-> min, max |-> max, step |-> step,
     default |-> NumV(default), options |-> <<>>]
Select(name, options, default) ==
    [name |-> name, type |-> "select", min |-> 0, max |-> 0, step |-> 0,
     default |-> StrV(default), options |-> options]
Boolean(name, default) ==
    [name |-> name, type |-> "boolean", min |-> 0, max |-> 0, step |-> 0,
     default |-> BoolV(default), options |-> <<>>]

\* g.params
Schema(g) ==
    CASE g = "rgba-as-rgb" ->
           <<Range("intensity", 10, 100, 10, 100)>>
      [] g = "rgb-as-rgba" ->
           <<Range("intensity", 10, 100, 10, 100)>>
      [] g = "bgr-swap" ->
           <<Select("swapMode",
                   <<"RGB to BGR",
                     "Swap R and G",
                     "Swap G and B">>,
                   "RGB to BGR")>>
      [] g = "argb-order" ->
           <<Select("format",
                   <<"RGBA as ARGB",
                     "RGBA as ABGR",
                     "RGBA as BGRA",
                     "Rotate channels left",
                     "Rotate channels right">>,
                   "RGBA as ARGB")>>
      [] g = "endianness" ->
           <<Select("swapMode",
                   <<"Swap 32-bit (full reverse)",
                     "Swap 16-bit pairs",
                     "Swap within 16-bit">>,
                   "Swap 32-bit (full reverse)")>>
      [] g = "channel-shift" ->
           <<Range("redShift", 0 - 2000, 2000, 100, 500),
             Range("greenShift", 0 - 2000, 2000, 100, 0),
             Range("blueShift", 0 - 2000, 2000, 100, 0 - 500)>>
      [] g = "bit-depth" ->
           <<Select("mode",
                   <<"Posterize (reduce bits)",
                     "Simulate 16-bit as 8-bit",
                     "Bit truncation">>,
                   "Posterize (reduce bits)"),
             Range("bits", 100, 700, 100, 300)>>
      [] g = "gamma" ->
           <<Select("mode",
                   <<"sRGB treated as Linear (washed out)",
                     "Linear treated as sRGB (too dark)",
                     "Double gamma",
                     "Inverse gamma">>,
                   "sRGB treated as Linear (washed out)"),
             Range("gamma", 100, 300, 10, 220)>>
      [] g = "premultiplied-alpha" ->
           <<Select("mode",
                   <<"Straight as Premultiplied (dark fringes)",
                     "Premultiplied as Straight (too bright)",
                     "Double premultiply",
                     "Show alpha errors">>,
                   "Straight as Premultiplied (dark fringes)"),
             Range("backgroundR", 0, 25500, 100, 12800),
             Range("backgroundG", 0, 25500, 100, 12800),
             Range("backgroundB", 0, 25500, 100, 12800)>>
      [] g = "signed-unsigned" ->
           <<Select("mode",
                   <<"Unsigned as Signed (bright becomes dark)",
                     "Signed range visualization",
                     "Normalize to signed (-1 to 1)",
                     "Absolute value (fold negatives)">>,
                   "Unsigned as Signed (bright becomes dark)")>>
      [] g = "compression" ->
           <<Select("blockSize",
                   <<"4x4 (DXT/BCn)",
                     "8x8 (JPEG)",
                     "16x16 (heavy)">>,
                   "8x8 (JPEG)"),
             Range("quality", 100, 1000, 100, 300)>>
      [] g = "yuv" ->
           <<Select("mode",
                   <<"YUV interpreted as RGB",
                     "Swapped U/V (green/purple)",
                     "Wrong range (washed out)",
                     "Wrong matrix (color shift)",
                     "Missing chroma (grayscale bleed)">>,
                   "YUV interpreted as RGB")>>
      [] g = "float-precision" ->
           <<Select("mode",
                   <<"NaN holes (black spots)",
                     "Infinity clipping",
                     "Precision banding",
                     "Denormal visualization",
                     "Random corruption">>,
                   "NaN holes (black spots)"),
             Range("intensity", 100, 1000, 100, 500)>>
      [] g = "wrong-stride" ->
           <<Range("strideError", 0 - 2000, 2000, 100, 400)>>
      [] g = "wrong-pitch" ->
           <<Range("pitchMultiplier", 50, 200, 10, 125)>>
      [] g = "row-padding" ->
           <<Range("paddingBytes", 0, 1600, 100, 400),
             Boolean("simulateBMP", FALSE)>>
      [] g = "alignment" ->
           <<Range("offsetBytes", 100, 700, 100, 100),
             Range("blockSize", 400, 6400, 400, 1600)>>
      [] g = "swizzle" ->
           <<Select("pattern",
                   <<"Morton (Z-order)",
                     "Tiled 8x8",
                     "Tiled 4x4",
                     "Interleaved rows">>,
                   "Morton (Z-order)"),
             Boolean("inverse", FALSE)>>
      [] g = "off-by-one" ->
           <<Range("xOffset", 0 - 500, 500, 100, 100),
             Range("yOffset", 0 - 500, 500, 100, 100),
             Boolean("wrapEdges", TRUE)>>
      [] g = "flipped-axis" ->
           <<Select("flipMode",
                   <<"Flip Vertical",
                     "Flip Horizontal",
                     "Flip Both",
                     "Rotate 180">>,
                   "Flip Vertical")>>
      [] g = "uv-wrapping" ->
           <<Select("wrapMode",
                   <<"Repeat",
                     "Mirror",
                     "Clamp",
                     "None (shows bug)">>,
                   "Repeat"),
             Range("uvScale", 50, 400, 25, 200),
             Range("uvOffsetX", 0 - 100, 100, 10, 0),
             Range("uvOffsetY", 0 - 100, 100, 10, 0)>>
      [] g = "aspect-ratio" ->
           <<Select("mode",
                   <<"Swap Width/Height",
                     "Force Square",
                     "Wrong Aspect Scale">>,
                   "Swap Width/Height"),
             Range("scaleX", 25, 200, 10, 100),
             Range("scaleY", 25, 200, 10, 100)>>
      [] g = "sampling" ->
           <<Select("mode",
                   <<"Nearest (blocky)",
                     "Exaggerated nearest (pixelate)",
                     "Bad bilinear (blurry)">>,
                   "Nearest (blocky)"),
             Range("scale", 200, 1600, 100, 400)>>
      [] g = "half-pixel" ->
           <<Range("offsetX", 0 - 100, 100, 10, 50),
             Range("offsetY", 0 - 100, 100, 10, 50),
             Boolean("useFiltering", TRUE)>>
      [] g = "mipmap" ->
           <<Select("mode",
                   <<"Too blurry (high LOD)",
                     "Aliased (low LOD)",
                     "Wrong mip level",
                     "Visualize mip levels">>,
                   "Too blurry (high LOD)"),
             Range("lodBias", 0, 400, 50, 200)>>

\* the parameter values the apply of transform g computes with
Resolved(g, P) ==
    CASE g = "rgba-as-rgb" -> rgbaAsRgbParams(P)
      [] g = "rgb-as-rgba" -> rgbAsRgbaParams(P)
      [] g = "bgr-swap" -> bgrSwapParams(P)
      [] g = "argb-order" -> argbOrderParams(P)
      [] g = "endianness" -> endiannessParams(P)
      [] g = "channel-shift" -> channelShiftParams(P)
      [] g = "bit-depth" -> bitDepthParams(P)
      [] g = "gamma" -> gammaParams(P)
      [] g = "premultiplied-alpha" -> premultipliedAlphaParams(P)
      [] g = "signed-unsigned" -> signedUnsignedParams(P)
      [] g = "compression" -> compressionParams(P)
      [] g = "yuv" -> yuvParams(P)
      [] g = "float-precision" -> floatPrecisionParams(P)
      [] g = "wrong-stride" -> wrongStrideParams(P)
      [] g = "wrong-pitch" -> wrongPitchParams(P)
      [] g = "row-padding" -> rowPaddingParams(P)
      [] g = "alignment" -> alignmentParams(P)
      [] g = "swizzle" -> swizzleParams(P)
      [] g = "off-by-one" -> offByOneParams(P)
      [] g = "flipped-axis" -> flippedAxisParams(P)
      [] g = "uv-wrapping" -> uvWrappingParams(P)
      [] g = "aspect-ratio" -> aspectRatioParams(P)
      [] g = "sampling" -> samplingParams(P)
      [] g = "half-pixel" -> halfPixelParams(P)
      [] g = "mipmap" -> mipmapParams(P)

\* the loop body of transform g for output pixel (x, y)
Pixel(g, img, q, x, y) ==
    CASE g = "rgba-as-rgb" -> rgbaAsRgbPixel(img, q, x, y)
      [] g = "rgb-as-rgba" -> rgbAsRgbaPixel(img, q, x, y)
      [] g = "bgr-swap" -> bgrSwapPixel(img, q, x, y)
      [] g = "argb-order" -> argbOrderPixel(img, q, x, y)
      [] g = "endianness" -> endiannessPixel(img, q, x, y)
      [] g = "channel-shift" -> channelShiftPixel(img, q, x, y)
      [] g = "bit-depth" -> bitDepthPixel(img, q, x, y)
      [] g = "gamma" -> gammaPixel(img, q, x, y)
      [] g = "premultiplied-alpha" -> premultipliedAlphaPixel(img, q, x, y)
      [] g = "signed-unsigned" -> signedUnsignedPixel(img, q, x, y)
      [] g = "compression" -> compressionPixel(img, q, x, y)
      [] g = "yuv" -> yuvPixel(img, q, x, y)
      [] g = "float-precision" -> floatPrecisionPixel(img, q, x, y)
      [] g = "wrong-stride" -> wrongStridePixel(img, q, x, y)
      [] g = "wrong-pitch" -> wrongPitchPixel(img, q, x, y)
      [] g = "row-padding" -> rowPaddingPixel(img, q, x, y)
      [] g = "alignment" -> alignmentPixel(img, q, x, y)
      [] g = "swizzle" -> swizzlePixel(img, q, x, y)
      [] g = "off-by-one" -> offByOnePixel(img, q, x, y)
      [] g = "flipped-axis" -> flippedAxisPixel(img, q, x, y)
      [] g = "uv-wrapping" -> uvWrappingPixel(img, q, x, y)
      [] g = "aspect-ratio" -> aspectRatioPixel(img, q, x, y)
      [] g = "sampling" -> samplingPixel(img, q, x, y)
      [] g = "half-pixel" -> halfPixelPixel(img, q, x, y)
      [] g = "mipmap" -> mipmapPixel(img, q, x, y)

\* the call raises a TypeError instead of returning
Throws(g, img, q) ==
    CASE g = "compression" -> compressionThrows(q)
      [] g = "mipmap" -> mipmapThrows(img, q)
      [] OTHER -> FALSE

\* g.apply(img, P): what the call does, pixel by pixel, or that it threw
\* the loops of apply, run with the resolved parameter values q
applyResolved(g, img, q) ==
    IF Throws(g, img, q) THEN Threw
    ELSE Ok(Render(img, LAMBDA x, y : Pixel(g, img, q, x, y)))

apply(g, img, P) == applyResolved(g, img, Resolved(g, P))

OutputData(pixels) ==
    [k \in 1..(4 * Len(pixels)) |->
        LET px == pixels[((k - 1) \div 4) + 1]
        IN  IF px.written THEN ToUint8Clamped(px.rgba[((k - 1) % 4) + 1]) ELSE 0]

---------------------------------------------------------------------------
(* Parameter maps handed to apply.                                         *)

Names(g) == {Schema(g)[i].name : i \in 1..Len(Schema(g))}
Definition(g, n) == Schema(g)[CHOOSE i \in 1..Len(Schema(g)) : Schema(g)[i].name = n]

\* the map resetParams and renderPreview build: every name with its default
Defaults(g) == [n \in Names(g) |-> Definition(g, n).default]

\* values inside what the definition declares
InRangeValues(d) ==
    CASE d.type = "range" ->
           {NumV(v) : v \in {d.min, d.max, d.default.num}
                             \cup (IF d.min <= 0 /\ 0 <= d.max THEN {0} ELSE {})}
      [] d.type = "select" -> {StrV(d.options[i]) : i \in 1..Len(d.options)}
      [] OTHER -> {BoolV(TRUE), BoolV(FALSE)}

\* values outside it: a number below or above the range, an undeclared
\* label or a number for a select, a number or a string for a boolean
MalformedValues(d) ==
    CASE d.type = "range" -> {NumV(d.min - 100), NumV(d.max + 200)}
      [] d.type = "select" -> {StrV("?"), IntV(4)}
      [] OTHER -> {IntV(0), StrV("no")}

InRangeMaps(g) ==
    {P \in [Names(g) -> UNION {InRangeValues(Definition(g, n)) : n \in Names(g)}] :
        \A n \in Names(g) : P[n] \in InRangeValues(Definition(g, n))}

\* maps with keys missing
PartialMaps(g) == {[n \in S |-> Defaults(g)[n]] : S \in SUBSET Names(g)}

\* the defaults with one value malformed
MalformedMaps(g) ==
    UNION {{[Defaults(g) EXCEPT ![n] = v] : v \in MalformedValues(Definition(g, n))} :
              n \in Names(g)}

\* further maps: values far outside the range
ExtraMaps(g) ==
    CASE g = "compression" -> {[Defaults(g) EXCEPT !["quality"] = IntV(100)]}
      [] g = "float-precision" ->
           {[mode |-> StrV("Random corruption"), intensity |-> IntV(60)],
            [mode |-> StrV("NaN holes (black spots)"), intensity |-> IntV(15)]}
      [] OTHER -> {}

ParamMaps(g) == InRangeMaps(g) \cup PartialMaps(g) \cup MalformedMaps(g) \cup ExtraMaps(g)

---------------------------------------------------------------------------
(* Bitmaps handed to apply: w x h RGBA bytes, numbered by seed.            *)

TestByte(j, seed) == (11 + 244 * seed + (37 + 166 * seed) * j) % 256

TestImage(w, h, seed) ==
    [width |-> w, height |-> h, data |-> [k \in 1..(w * h * 4) |-> TestByte(k - 1, seed)]]

---------------------------------------------------------------------------
(* The registry (glitches/index.ts): the id lookup and the category lists  *)
(* built from the catalog when the module is evaluated.                    *)

\* GlitchCategory
Categories == <<"pixel-format", "memory-layout", "coordinates">>

\* g.category
category(g) ==
    CASE g \in {"rgba-as-rgb", "rgb-as-rgba", "bgr-swap", "argb-order", "endianness",
                "channel-shift", "bit-depth", "gamma", "premultiplied-alpha",
                "signed-unsigned", "compression", "yuv", "float-precision"} -> "pixel-format"
      [] g \in {"wrong-stride", "wrong-pitch", "row-padding", "alignment", "swizzle"} ->
           "memory-layout"
      [] g \in {"off-by-one", "flipped-axis", "uv-wrapping", "aspect-ratio", "sampling",
                "half-pixel", "mipmap"} -> "coordinates"

\* the id and the category of each transform of the catalog, in its order
Catalog == [i \in 1..Len(glitches) |-> [id |-> glitches[i], category |-> category(glitches[i])]]

\* the GlitchDefinition objects of a list: each is an object of its own,
\* told apart from the others by its place in the list
Definitions(list) ==
    [i \in 1..Len(list) |-> [object |-> i, id |-> list[i].id, category |-> list[i].category]]

\* new Map(defs.map(g => [g.id, g])): the entries are set in list order, a
\* later entry with a key already set replaces the value of the earlier one
glitchByIdOf(defs) ==
    [k \in {defs[i].id : i \in 1..Len(defs)} |->
        defs[CHOOSE i \in 1..Len(defs) :
               defs[i].id = k /\ \A j \in 1..Len(defs) : defs[j].id = k => j <= i]]

\* not the program: the filter compares with a mistyped category
filterMistyped(defs, c) ==
    SelectSeq(defs, LAMBDA g : g.category = (IF c = "memory-layout" THEN "memory" ELSE c))

\* defs.filter(g => g.category === c)
filter(defs, c) == SelectSeq(defs, LAMBDA g : g.category = c)

\* glitchesByCategory
glitchesByCategoryOf(defs) == [c \in {Categories[i] : i \in 1..Len(Categories)} |-> filter(defs, c)]

\* glitchById.get(id): the definition, or undefined
get(map, id) == IF id \in DOMAIN map THEN map[id] ELSE Undefined

\* the module before its exports are evaluated, holding the list it is given
Imported(list) ==
    [glitches |-> Definitions(list), evaluated |-> FALSE,
     glitchById |-> <<>>, glitchesByCategory |-> <<>>]

\* the exports of glitches/index.ts evaluated over the definitions defs
GlitchesModule(defs) ==
    [glitches |-> defs, evaluated |-> TRUE,
     glitchById |-> glitchByIdOf(defs), glitchesByCategory |-> glitchesByCategoryOf(defs)]

\* what the Sandbox handler that ran last did: nothing has run yet
NoEvent == [handler |-> "", id |-> "", found |-> FALSE, chosen |-> <<>>,
            applied |-> FALSE, glitch |-> "", params |-> <<>>, image |-> 0]

---------------------------------------------------------------------------
(* The sandbox around apply: a bitmap is loaded, a transform is applied to *)
(* it with a parameter map, the same call may be made again, and the       *)
(* processed bitmap is dropped again.                                      *)

\* no call is running step by step
NoFrame == [pc |-> "idle", q |-> <<>>, mipLevels |-> <<>>, mipW |-> 0, mipH |-> 0,
            x |-> 0, y |-> 0, sampled |-> <<>>]

NoResult == [called |-> FALSE, threw |-> FALSE, output |-> 0,
             width |-> 0, height |-> 0, pixels |-> <<>>, data |-> <<>>]

\* not the program: the output written into a live object of the heap
SameImageData(h, w, ht) ==
    [id |-> CHOOSE i \in DOMAIN h : TRUE,
     object |-> [width |-> w, height |-> ht, data |-> [k \in 1..(w * ht * 4) |-> 0]]]

\* new ImageData(width, height): a fresh, zero-filled buffer of its own
NewImageData(h, w, ht) ==
    LET id == CHOOSE i \in 1..(Cardinality(DOMAIN h) + 1) : i \notin DOMAIN h
    IN  [id |-> id, object |-> [width |-> w, height |-> ht, data |-> [k \in 1..(w * ht * 4) |-> 0]]]

\* the heap and the outcome after apply returned o for the bitmap img of h
Returned(h, img, o) ==
    LET new == NewImageData(h, img.width, img.height)
        out == [new.object EXCEPT !.data = OutputData(o.pixels)]
    IN  IF o.threw
        THEN [heap |-> h, outcome |-> [NoResult EXCEPT !.called = TRUE, !.threw = TRUE]]
        ELSE [heap |-> [i \in DOMAIN h \cup {new.id} |-> IF i = new.id THEN out ELSE h[i]],
              outcome |-> [called |-> TRUE, threw |-> FALSE, output |-> new.id,
                           width |-> out.width, height |-> out.height,
                           pixels |-> o.pixels, data |-> out.data]]

\* one call of glitch.apply(imageData, params) on the heap h: the outcome
\* and the heap after it
Call(h, input, g, P) == Returned(h, h[input], apply(g, h[input], P))

\* the sandbox keeps what the call left
Keep(c) ==
    /\ heap' = c.heap
    /\ result' = c.outcome

Init ==
    /\ heap = <<>>
    /\ original = 0
    /\ glitch = ""
    /\ params = <<>>
    /\ result = NoResult
    /\ snapshot = <<>>
    /\ previous = NoResult
    /\ registry = GlitchesModule(Definitions(Catalog))
    /\ handled = NoEvent
    /\ frame = NoFrame
    /\ pending = <<>>
    /\ downloadBtn = TRUE

\* handleFile: the loaded bitmap becomes the original, nothing is processed
LoadImage(w, h, seed) ==
    /\ ~result.called
    /\ heap' = <<TestImage(w, h, seed)>>
    /\ original' = 1
    /\ glitch' = ""
    /\ params' = <<>>
    /\ result' = NoResult
    /\ snapshot' = <<>>
    /\ previous' = NoResult
    /\ UNCHANGED <<registry, handled, frame, pending, downloadBtn>>

\* applyGlitch: the selected transform runs on the original
ApplyGlitch(g, P) ==
    /\ original # 0
    /\ ~result.called
    /\ Keep(Call(heap, original, g, P))
    /\ glitch' = g
    /\ params' = P
    /\ snapshot' = heap[original].data
    /\ previous' = NoResult
    /\ UNCHANGED <<original, registry, handled, frame, pending, downloadBtn>>

\* the same call once more: same transform, same bitmap, same map
ApplyAgain ==
    /\ result.called
    /\ ~previous.called
    /\ Keep(Call(heap, original, glitch, params))
    /\ previous' = result
    /\ UNCHANGED <<original, glitch, params, snapshot, registry, handled,
                 frame, pending, downloadBtn>>

\* a call of another transform made between the two: its output is a
\* further object of the heap
ApplyBetween ==
    /\ result.called
    /\ ~previous.called
    /\ Cardinality(DOMAIN heap) <= 2
    /\ heap' = Call(heap, original, "float-precision",
                    [mode |-> StrV("Random corruption"), intensity |-> IntV(60)]).heap
    /\ UNCHANGED <<original, glitch, params, result, snapshot, previous, registry, handled,
                 frame, pending, downloadBtn>>

\* showOriginal: the processed bitmap is dropped
ShowOriginal ==
    /\ result.called
    /\ heap' = [i \in {original} |-> heap[i]]
    /\ glitch' = ""
    /\ params' = <<>>
    /\ result' = NoResult
    /\ snapshot' = <<>>
    /\ previous' = NoResult
    /\ UNCHANGED <<original, registry, handled, frame, pending, downloadBtn>>

Next ==
    \/ \E w \in 1..MaxDim, h \in 1..MaxDim, seed \in 0..MaxSeed : LoadImage(w, h, seed)
    \/ \E i \in 1..Len(glitches) : \E P \in ParamMaps(glitches[i]) : ApplyGlitch(glitches[i], P)
    \/ ApplyBetween
    \/ ApplyAgain
    \/ ShowOriginal

Spec == Init /\ [][Next]_vars

---------------------------------------------------------------------------
(* What the properties below speak about.                                  *)

\* the bitmap handed to apply
Input == heap[original]

\* a value the definition d declares: inside [min, max], one of the
\* options, or a boolean
Declared(d, v) ==
    CASE d.type = "range" -> v.kind = "number" /\ d.min <= v.num /\ v.num <= d.max
      [] d.type = "select" -> v.kind = "string" /\ \E i \in 1..Len(d.options) : d.options[i] = v.str
      [] OTHER -> v.kind = "boolean"

\* every value of the map P is one its definition declares
InRange(g, P) ==
    \A n \in DOMAIN P : n \in Names(g) /\ Declared(Definition(g, n), P[n])

\* the reads apply made of a buffer, over all output pixels
Reads(pixels) == UNION {pixels[k].reads : k \in 1..Len(pixels)}

\* the values apply stored into the output buffer
Stored(pixels) ==
    UNION {{pixels[k].rgba[c] : c \in 1..4} : k \in {j \in 1..Len(pixels) : pixels[j].written}}

HasOutput == result.called /\ ~result.threw

---------------------------------------------------------------------------
(* C1.  Shape preservation: for every transform, every bitmap and every    *)
(* parameter map, apply returns a bitmap of the input's width and height   *)
(* whose buffer holds width * height * 4 bytes.                            *)
C1_ShapePreserved ==
    result.called =>
        /\ ~result.threw
        /\ result.width = Input.width
        /\ result.height = Input.height
        /\ Len(result.data) = Input.width * Input.height * 4

---------------------------------------------------------------------------
(* C2.  Index safety: with every parameter value inside its declared      *)
(* range, each read of the input buffer or of a mip level uses an index i  *)
(* with 0 <= i < buffer length.                                            *)
C2_IndexSafety ==
    (HasOutput /\ InRange(glitch, params)) =>
        \A rd \in Reads(result.pixels) : 0 <= rd[1] /\ rd[1] < rd[2]

---------------------------------------------------------------------------
(* C3.  Missing keys fall back to the schema default: apply(bitmap, {})    *)
(* produces exactly the output of apply(bitmap, D), D mapping every        *)
(* declared parameter name to its declared default.                        *)
C3_EmptyMapIsDefaults ==
    (result.called /\ DOMAIN params = {}) =>
        LET d == apply(glitch, Input, Defaults(glitch))
        IN  /\ result.threw = d.threw
            /\ ~d.threw => result.data = OutputData(d.pixels)

---------------------------------------------------------------------------
(* C4.  Values present are passed through: a number supplied in the map    *)
(* and lying inside the declared range, the value 0 included, is the value *)
(* the transform computes with.                                            *)
C4_PresentValuesPassThrough ==
    result.called =>
        \A n \in DOMAIN params :
            (Definition(glitch, n).type = "range" /\ Declared(Definition(glitch, n), params[n]))
                => Resolved(glitch, params)[n] = params[n]

---------------------------------------------------------------------------
(* C6.  Malformed parameter values never crash a transform: apply returns  *)
(* a bitmap without throwing when a value is a number outside its range, a *)
(* string that is no declared option, or a value of the wrong kind.        *)
C6_MalformedNeverThrows ==
    (result.called /\ ~InRange(glitch, params)) => ~result.threw

---------------------------------------------------------------------------
(* C9.  Channel clamp: with every parameter value inside its declared      *)
(* range, each value stored into an output channel is already an integer   *)
(* in [0, 255], never an undefined read.                                   *)
C9_ChannelClamp ==
    (HasOutput /\ InRange(glitch, params)) =>
        \A v \in Stored(result.pixels) : v.tag = "number" /\ 0 <= v.val /\ v.val <= 255

---------------------------------------------------------------------------
(* The off-by-one scenario: a 4 x 4 bitmap with a distinct colour per      *)
(* pixel, off-by-one applied with every declared pair of offsets.          *)

\* pixel p = y * 4 + x has the colour (15 + 16p, p, 255 - p, 255)
DistinctImage ==
    [width |-> 4, height |-> 4,
     data |-> [k \in 1..64 |->
                 LET p == (k - 1) \div 4
                 IN  CASE (k - 1) % 4 = 0 -> 15 + 16 * p
                       [] (k - 1) % 4 = 1 -> p
                       [] (k - 1) % 4 = 2 -> 255 - p
                       [] OTHER -> 255]]

\* the integers a range definition declares
Integers(d) == {v \div 100 : v \in {u \in d.min..d.max : u % 100 = 0}}

InitOffByOne ==
    /\ heap = <<DistinctImage>>
    /\ original = 1
    /\ glitch = ""
    /\ params = <<>>
    /\ result = NoResult
    /\ snapshot = <<>>
    /\ previous = NoResult
    /\ registry = GlitchesModule(Definitions(Catalog))
    /\ handled = NoEvent
    /\ frame = NoFrame
    /\ pending = <<>>
    /\ downloadBtn = TRUE

NextOffByOne ==
    \/ \E xo \in Integers(Definition("off-by-one", "xOffset")),
          yo \in Integers(Definition("off-by-one", "yOffset")),
          we \in BOOLEAN :
            ApplyGlitch("off-by-one",
                        [xOffset |-> IntV(xo), yOffset |-> IntV(yo), wrapEdges |-> BoolV(we)])
    \/ ShowOriginal

SpecOffByOne == InitOffByOne /\ [][NextOffByOne]_vars

\* the four bytes of pixel (x, y) of a bitmap
Colour(img, x, y) == SubSeq(img.data, (y * img.width + x) * 4 + 1, (y * img.width + x) * 4 + 4)

---------------------------------------------------------------------------
(* C5.  Off-by-one with wrapEdges = true gives output (x, y) = input       *)
(* ((x + xOffset) mod width, (y + yOffset) mod height); on the 4 x 4       *)
(* bitmap with xOffset = 1, yOffset = 0 output (0, y) = input (1, y) and   *)
(* output (3, y) = input (0, y) for every row y.                           *)
C5_OffByOneWrap ==
    (HasOutput /\ glitch = "off-by-one" /\ params.wrapEdges = BoolV(TRUE)) =>
        LET out == heap[result.output]
            xo == IntOf(params.xOffset)
            yo == IntOf(params.yOffset)
        IN  /\ \A x \in 0..(Input.width - 1), y \in 0..(Input.height - 1) :
                  Colour(out, x, y) = Colour(Input, (x + xo) % Input.width, (y + yo) % Input.height)
            /\ (xo = 1 /\ yo = 0) =>
                  \A y \in 0..3 : /\ Colour(out, 0, y) = Colour(Input, 1, y)
                                  /\ Colour(out, 3, y) = Colour(Input, 0, y)

---------------------------------------------------------------------------
(* C7.  Purity: every byte of the input bitmap's buffer has the same value *)
(* after apply returns as before the call, and the returned bitmap is a    *)
(* different buffer from the input.                                        *)
C7_InputUntouched ==
    result.called =>
        /\ Input.data = snapshot
        /\ ~result.threw =>
              /\ result.output # original
              /\ result.output \in DOMAIN heap
              /\ heap[result.output].data = result.data

\* C7: mipmap, whose chain starts with the input bitmap itself, has returned
\* an output that differs from its input
C7_MipmapReturned ==
    /\ HasOutput
    /\ glitch = "mipmap"
    /\ Input.width = 2 /\ Input.height = 2
    /\ result.data # snapshot

---------------------------------------------------------------------------
---------------------------------------------------------------------------
(* C10.  Default-parameter completeness: for every registered transform    *)
(* and every bitmap of at least 2 x 2 pixels, apply with an empty          *)
(* parameter map returns a bitmap without throwing.                        *)
C10_DefaultsNeverThrow ==
    (result.called /\ DOMAIN params = {} /\ Input.width >= 2 /\ Input.height >= 2)
        => ~result.threw

\* C10: mipmap returned for the empty map on a 2 x 2 bitmap, its default
\* level of detail beyond the two levels of the chain
C10_MipmapDefaults ==
    /\ HasOutput
    /\ glitch = "mipmap"
    /\ DOMAIN params = {}
    /\ Input.width = 2 /\ Input.height = 2
    /\ mipmapParams(params).lodBias.num \div 100 >= Len(mipLevels(Input))

---------------------------------------------------------------------------
(* The registry over lists of transforms that may share an id: the module  *)
(* is given a list and evaluates its exports.                              *)

EntryLists ==
    UNION {[1..n -> [id : {glitches[i] : i \in 1..MaxIds},
                     category : {Categories[i] : i \in 1..Len(Categories)}]] :
              n \in 0..MaxEntries}

InitRegistry ==
    /\ heap = <<>>
    /\ original = 0
    /\ glitch = ""
    /\ params = <<>>
    /\ result = NoResult
    /\ snapshot = <<>>
    /\ previous = NoResult
    /\ registry \in {Imported(list) : list \in EntryLists}
    /\ handled = NoEvent
    /\ frame = NoFrame
    /\ pending = <<>>
    /\ downloadBtn = TRUE

\* glitches/index.ts is evaluated: glitchById and glitchesByCategory are built
EvaluateModule ==
    /\ ~registry.evaluated
    /\ registry' = GlitchesModule(registry.glitches)
    /\ UNCHANGED <<heap, original, glitch, params, result, snapshot, previous, handled,
                 frame, pending, downloadBtn>>

NextRegistry == EvaluateModule

SpecRegistry == InitRegistry /\ [][NextRegistry]_vars

---------------------------------------------------------------------------
(* C11.  Duplicate ids fail fast: the module never yields a registry in    *)
(* which a transform of the list it was given cannot be reached by its id. *)
C11_DuplicateIdsFailFast ==
    registry.evaluated =>
        \A i \in 1..Len(registry.glitches) :
            get(registry.glitchById, registry.glitches[i].id) = registry.glitches[i]

---------------------------------------------------------------------------
(* C12.  Registry uniqueness: no two transforms of the catalog share an    *)
(* id, the id lookup has exactly one entry per catalog entry and           *)
(* get(g.id) returns g itself for every catalog transform g.               *)
C12_RegistryUnique ==
    LET defs == registry.glitches
    IN  /\ registry.evaluated
        /\ Len(defs) = Len(glitches)
        /\ \A i, j \in 1..Len(defs) : defs[i].id = defs[j].id => i = j
        /\ Cardinality(DOMAIN registry.glitchById) = Len(defs)
        /\ \A i \in 1..Len(defs) : get(registry.glitchById, defs[i].id) = defs[i]

\* C12: the catalog is registered and a transform was looked up and applied
C12_CatalogRegistered ==
    /\ registry.evaluated
    /\ Len(registry.glitches) = 25
    /\ HasOutput
    /\ get(registry.glitchById, glitch).object = 25

---------------------------------------------------------------------------
(* C13.  listByCategory: each of the three category lists holds exactly    *)
(* the catalog transforms of that category, in catalog order, and every    *)
(* catalog transform is in exactly one of the three lists.                 *)
C13_ListByCategory ==
    LET defs == registry.glitches
        lists == registry.glitchesByCategory
        cats == {Categories[i] : i \in 1..Len(Categories)}
    IN  /\ DOMAIN lists = cats
        /\ \A c \in cats :
              /\ \A k \in 1..Len(lists[c]) :
                    /\ lists[c][k].category = c
                    /\ lists[c][k].object \in 1..Len(defs)
                    /\ lists[c][k] = defs[lists[c][k].object]
              /\ \A i \in 1..Len(defs) :
                    defs[i].category = c => \E k \in 1..Len(lists[c]) : lists[c][k] = defs[i]
              /\ \A k1, k2 \in 1..Len(lists[c]) :
                    k1 < k2 => lists[c][k1].object < lists[c][k2].object
        /\ \A i \in 1..Len(defs) :
              Cardinality({c \in cats : \E k \in 1..Len(lists[c]) : lists[c][k] = defs[i]}) = 1

\* C13: the three lists of the catalog, 13 + 5 + 7 transforms, while a
\* transform of the second list is applied
C13_CategoriesListed ==
    /\ Len(registry.glitchesByCategory["pixel-format"]) = 13
    /\ Len(registry.glitchesByCategory["memory-layout"]) = 5
    /\ Len(registry.glitchesByCategory["coordinates"]) = 7
    /\ registry.glitchesByCategory["memory-layout"][5].id = "swizzle"
    /\ HasOutput
    /\ glitch = "swizzle"

---------------------------------------------------------------------------
(* The Sandbox (components/sandbox.ts): its fields are original            *)
(* (originalImageData), glitch (currentGlitch, by id), params              *)
(* (currentParams) and result (processedImageData); its handlers are the   *)
(* change of the glitch select, the reset button, the change of a          *)
(* parameter control and the load of a file.                               *)

\* glitchById.get(glitchId) || null, as the id of the transform ("" : null)
LookupFirst(map, id) == IF id \in DOMAIN map THEN id ELSE registry.glitches[1].id

Lookup(map, id) == IF get(map, id) = Undefined THEN "" ELSE id

\* not the program: resetParams without `this.currentParams = {}`
resetParamsKeeping(g, P) ==
    IF g = "" THEN P
    ELSE [n \in DOMAIN P \cup Names(g) |-> IF n \in Names(g) THEN Defaults(g)[n] ELSE P[n]]

\* resetParams, for currentGlitch g and currentParams P: the new currentParams
resetParams(g, P) == IF g = "" THEN P ELSE Defaults(g)

\* the objects of the heap h the Sandbox still refers to
Live(h, ids) == [i \in DOMAIN h \cap ids |-> h[i]]

\* not the program: showOriginal without `this.processedImageData = null`
showOriginalKeeping(h, img, processed, disabled) ==
    IF img = 0
    THEN [heap |-> h, result |-> processed, disabled |-> disabled, applied |-> FALSE]
    ELSE [heap |-> h, result |-> processed, disabled |-> TRUE, applied |-> FALSE]

\* showOriginal: if a bitmap is loaded the processed bitmap is dropped and
\* the download button disabled
showOriginal(h, img, processed, disabled) ==
    IF img = 0
    THEN [heap |-> h, result |-> processed, disabled |-> disabled, applied |-> FALSE]
    ELSE [heap |-> Live(h, {img}), result |-> NoResult, disabled |-> TRUE, applied |-> FALSE]

\* applyGlitch after the call c of apply: its output becomes the processed
\* bitmap and the download button is enabled; an error is caught and logged
Settled(h, img, processed, disabled, c) ==
    IF c.outcome.threw
    THEN [heap |-> h, result |-> processed, disabled |-> disabled, applied |-> TRUE]
    ELSE [heap |-> Live(c.heap, {img, c.outcome.output}), result |-> c.outcome,
          disabled |-> FALSE, applied |-> TRUE]

\* applyGlitch, for originalImageData img, currentGlitch g, currentParams P
applyGlitch(h, img, g, P, processed, disabled) ==
    IF img = 0 \/ g = ""
    THEN [heap |-> h, result |-> processed, disabled |-> disabled, applied |-> FALSE]
    ELSE Settled(h, img, processed, disabled, Call(h, img, g, P))

\* the fields a handler leaves, and what it did: a is what applyGlitch or
\* showOriginal left, chosen the values set through the controls since the
\* glitch was selected
Leave(handler, id, found, chosen, g, P, img, a) ==
    /\ heap' = a.heap
    /\ original' = img
    /\ glitch' = g
    /\ params' = P
    /\ result' = a.result
    /\ handled' = [handler |-> handler, id |-> id, found |-> found, chosen |-> chosen,
                   applied |-> a.applied,
                   glitch |-> IF a.applied THEN g ELSE "",
                   params |-> IF a.applied THEN P ELSE <<>>,
                   image |-> IF a.applied THEN img ELSE 0]
    /\ downloadBtn' = a.disabled
    /\ UNCHANGED <<snapshot, previous, registry, frame>>

\* a handler during which no load of a file begins or settles
Finish(handler, id, found, chosen, g, P, img, a) ==
    /\ Leave(handler, id, found, chosen, g, P, img, a)
    /\ UNCHANGED pending

\* the change handler, then branch of `if (glitchId)`, g the glitch found
Selected(id, g, P) ==
    Finish("select", id, id \in DOMAIN registry.glitchById, <<>>, g, P, original,
           applyGlitch(heap, original, g, P, result, downloadBtn))

\* the ids the glitch select can be changed to: the options, the empty
\* placeholder and an id no transform has
SelectIds == {glitches[i] : i \in 1..MaxSelect} \cup {"", "no-such-glitch"}

\* glitchSelect 'change'
SelectChange(id) ==
    IF id # ""
    THEN Selected(id, Lookup(registry.glitchById, id),
                  resetParams(Lookup(registry.glitchById, id), params))
    ELSE Finish("select", id, FALSE, <<>>, "", params, original,
                showOriginal(heap, original, result, downloadBtn))

\* reset-btn 'click'
ResetClick ==
    Finish("reset", "", FALSE, <<>>, "", params, original,
           showOriginal(heap, original, result, downloadBtn))

\* renderParams: the controls in paramsContainer, one for each parameter
\* of the current glitch, none without a glitch
Controls(g) == IF g = "" THEN {} ELSE Names(g)

\* the values the control of a parameter can yield
ControlValues(d) == InRangeValues(d)

\* obj[key] = value
Assign(obj, key, value) ==
    [k \in DOMAIN obj \cup {key} |-> IF k = key THEN value ELSE obj[k]]

\* handleParamChange once currentParams[param.name] is set
Changed(P, chosen) ==
    Finish("param", "", FALSE, chosen, glitch, P, original,
           applyGlitch(heap, original, glitch, P, result, downloadBtn))

\* handleParamChange: the controls are those renderParams made for the
\* current glitch; without a glitch there are none
ParamChange(n, v) == Changed(Assign(params, n, v), Assign(handled.chosen, n, v))

\* handleFile once the bitmap is loaded: showOriginal, then applyGlitch if
\* a glitch is selected
Loaded(a) ==
    Finish("file", "", FALSE, handled.chosen, glitch, params, 1,
           IF glitch # "" THEN applyGlitch(a.heap, 1, glitch, params, a.result, a.disabled)
           ELSE a)

HandleFile(w, h, seed) ==
    Loaded(showOriginal(<<TestImage(w, h, seed)>>, 1, NoResult, downloadBtn))

NextSandbox ==
    \/ \E id \in SelectIds : SelectChange(id)
    \/ ResetClick
    \/ \E n \in Controls(glitch) : \E v \in ControlValues(Definition(glitch, n)) :
          ParamChange(n, v)
    \/ \E w \in 1..MaxDim, h \in 1..MaxDim, seed \in 0..MaxSeed : HandleFile(w, h, seed)

SpecSandbox == Init /\ [][NextSandbox]_vars

---------------------------------------------------------------------------
(* C14.  Unknown transform id: a lookup of an id that is not in the        *)
(* catalog finds nothing without throwing, apply is invoked only when an   *)
(* image is loaded and the current glitch is a transform of the registry,  *)
(* and a lookup that found nothing leads to no apply call.                 *)
C14_UnknownIdNotApplied ==
    /\ handled.applied =>
          /\ handled.image # 0
          /\ handled.image = original
          /\ handled.glitch = glitch
          /\ \E i \in 1..Len(registry.glitches) : registry.glitches[i].id = handled.glitch
    /\ (handled.handler = "select" /\ ~handled.found) =>
          /\ ~handled.applied
          /\ glitch = ""

\* C14: with a bitmap loaded and processed, the select changed to an id no
\* transform has
C14_UnknownIdSelected ==
    /\ handled.handler = "select"
    /\ handled.id = "no-such-glitch"
    /\ ~handled.found
    /\ original # 0
    /\ result.called

---------------------------------------------------------------------------
(* C19.  Sandbox parameter resolution: the parameter map passed to apply   *)
(* has exactly the parameter names of the selected glitch's schema as      *)
(* keys, each holding the value last chosen by the user for that glitch    *)
(* or, if none was chosen, the schema default.                             *)
C19_ParamsResolved ==
    handled.applied =>
        /\ DOMAIN handled.params = Names(handled.glitch)
        /\ \A n \in Names(handled.glitch) :
              handled.params[n] = IF n \in DOMAIN handled.chosen
                                  THEN handled.chosen[n]
                                  ELSE Definition(handled.glitch, n).default

\* C19: channel-shift is applied after one of its controls was changed,
\* another glitch having been selected before it with a parameter name
\* that is none of its own
C19_ChangedAfterReselect ==
    /\ handled.applied
    /\ handled.handler = "param"
    /\ handled.glitch = "channel-shift"
    /\ DOMAIN handled.chosen = {"redShift"}
    /\ handled.chosen["redShift"] # Definition("channel-shift", "redShift").default

---------------------------------------------------------------------------
(* C18.  Alpha pass-through: for bgr-swap, channel-shift, bit-depth,       *)
(* gamma, signed-unsigned, compression, yuv, float-precision and           *)
(* alignment, in every mode and for every parameter value, the alpha byte  *)
(* of each output pixel equals the alpha byte of the input pixel at the    *)
(* same coordinates.                                                       *)
C18_AlphaPassThrough ==
    (HasOutput /\ glitch \in {"bgr-swap", "channel-shift", "bit-depth", "gamma",
                              "signed-unsigned", "compression", "yuv", "float-precision",
                              "alignment"}) =>
        \A k \in 1..(Input.width * Input.height) :
            heap[result.output].data[4 * k] = Input.data[4 * k]

\* C18: alignment returned a bitmap whose colour bytes differ from the
\* input's, on a bitmap whose alpha bytes are not all equal
C18_AlignmentShifted ==
    /\ HasOutput
    /\ glitch = "alignment"
    /\ Input.width * Input.height >= 2
    /\ Input.data[4] # Input.data[8]
    /\ heap[result.output].data # Input.data

----------------------------------------------------------------------------
(* The worked scenarios: known bitmaps, one transform applied once and then *)
(* once more to the bitmap it returned                                      *)

QuadrantColours ==
    <<<<200, 30, 41, 255>>, <<11, 220, 50, 128>>, <<20, 61, 240, 64>>, <<250, 251, 10, 0>>>>

\* a 4x4 bitmap of four 2x2 quadrants, each of one colour
QuadrantImage(seed) ==
    [width |-> 4, height |-> 4,
     data |-> [k \in 1..64 |->
                 QuadrantColours[(((((k - 1) \div 16) \div 2) * 2 + (((k - 1) \div 4) % 4) \div 2
                                   + seed) % 4) + 1][((k - 1) % 4) + 1]]]

\* the single red pixel
RedPixel == [width |-> 1, height |-> 1, data |-> <<255, 0, 0, 255>>]

\* mid gray beside a translucent pixel
GrayImage == [width |-> 2, height |-> 1, data |-> <<128, 128, 128, 255, 128, 0, 255, 77>>]

ScenarioImages ==
    {DistinctImage, RedPixel, GrayImage}
        \cup {QuadrantImage(seed) : seed \in 0..MaxSeed}
        \cup {TestImage(w, h, seed) : w \in 1..MaxDim, h \in 1..MaxDim, seed \in 0..MaxSeed}

LodBiases == {NumV(100 * b) : b \in 0..2}

\* mipmap calls, with the level offsets 0, 1 and 2
MipmapCalls == {[P EXCEPT !["lodBias"] = b] : P \in InRangeMaps("mipmap"), b \in LodBiases}

ScenarioCalls ==
    UNION {{<<g, P>> : P \in InRangeMaps(g)} : g \in {"flipped-axis", "bgr-swap", "gamma"}}
        \cup {<<"mipmap", P>> : P \in MipmapCalls}

InitScenarios ==
    /\ heap \in {<<img>> : img \in ScenarioImages}
    /\ original = 1
    /\ glitch = ""
    /\ params = <<>>
    /\ result = NoResult
    /\ snapshot = <<>>
    /\ previous = NoResult
    /\ registry = GlitchesModule(Definitions(Catalog))
    /\ handled = NoEvent
    /\ frame = NoFrame
    /\ pending = <<>>
    /\ downloadBtn = TRUE

\* the transform that ran runs again, on the bitmap it returned
ApplyToOutput ==
    /\ HasOutput
    /\ ~previous.called
    /\ Keep(Call(heap, result.output, glitch, params))
    /\ previous' = result
    /\ UNCHANGED <<original, glitch, params, snapshot, registry, handled,
                 frame, pending, downloadBtn>>

NextScenarios ==
    \/ \E c \in ScenarioCalls : ApplyGlitch(c[1], c[2])
    \/ ApplyToOutput
    \/ ShowOriginal

SpecScenarios == InitScenarios /\ [][NextScenarios]_vars

\* the sum of channel c over the 2x2 quadrant (qx, qy) of img
QuadrantSum(img, qx, qy, c) ==
    Colour(img, 2 * qx, 2 * qy)[c] + Colour(img, 2 * qx + 1, 2 * qy)[c]
        + Colour(img, 2 * qx, 2 * qy + 1)[c] + Colour(img, 2 * qx + 1, 2 * qy + 1)[c]

BlurredByOne ==
    /\ HasOutput
    /\ ~previous.called
    /\ glitch = "mipmap"
    /\ params = [mode |-> StrV("Too blurry (high LOD)"), lodBias |-> IntV(1)]
    /\ Input.width = 4
    /\ Input.height = 4

\* C15: on a 4x4 bitmap the first mip level is 2x2 and every channel of
\* every texel is the average of the four pixels of its quadrant rounded to
\* the nearest integer, and mipmap with mode 'Too blurry (high LOD)' and
\* lodBias 1 returns at every pixel the RGB of the texel of its quadrant
C15_MipmapBoxFilter ==
    BlurredByOne =>
        /\ mipLevels(Input)[2].width = 2
        /\ mipLevels(Input)[2].height = 2
        /\ \A x \in 0..1, y \in 0..1, c \in 1..4 :
              Colour(mipLevels(Input)[2], x, y)[c] = (QuadrantSum(Input, x, y, c) + 2) \div 4
        /\ \A x \in 0..3, y \in 0..3, c \in 1..3 :
              Colour(result, x, y)[c] = (QuadrantSum(Input, x \div 2, y \div 2, c) + 2) \div 4

\* C15 witness: the bitmap of four one-colour quadrants came back with each
\* quadrant's colour, opaque
C15_QuadrantsBlurred ==
    /\ BlurredByOne
    /\ Input = QuadrantImage(0)
    /\ Colour(result, 0, 0) = <<200, 30, 41, 255>>
    /\ Colour(result, 3, 1) = <<11, 220, 50, 255>>
    /\ Colour(result, 1, 2) = <<20, 61, 240, 255>>
    /\ Colour(result, 2, 3) = <<250, 251, 10, 255>>

AppliedTwice(g, P) ==
    /\ HasOutput
    /\ previous.called
    /\ ~previous.threw
    /\ glitch = g
    /\ params = P

\* C16: flipped-axis with flipMode 'Flip Both', 'Flip Vertical' or
\* 'Flip Horizontal', applied to a bitmap and then to the bitmap it
\* returned, returns a bitmap of the same size whose every pixel equals the
\* original's
C16_FlipRoundTrip ==
    \A mode \in {"Flip Both", "Flip Vertical", "Flip Horizontal"} :
        AppliedTwice("flipped-axis", [flipMode |-> StrV(mode)]) =>
            /\ result.width = Input.width
            /\ result.height = Input.height
            /\ result.data = Input.data

\* C16 witness: 'Flip Both' ran twice on the 4x4 bitmap of sixteen distinct
\* pixels; the first run moved the pixels
C16_FlippedBothTwice ==
    /\ AppliedTwice("flipped-axis", [flipMode |-> StrV("Flip Both")])
    /\ Input = DistinctImage
    /\ previous.data # Input.data
    /\ Colour(previous, 0, 0) = Colour(Input, 3, 3)

AppliedOnce(g, P) ==
    /\ HasOutput
    /\ ~previous.called
    /\ glitch = g
    /\ params = P

\* C17: bgr-swap with swapMode 'RGB to BGR' returns for every pixel
\* (r, g, b, a) the pixel (b, g, r, a), so the single pixel (255, 0, 0, 255)
\* becomes (0, 0, 255, 255), and applied to the bitmap it returned it
\* returns the input
C17_BgrSwap ==
    /\ AppliedOnce("bgr-swap", [swapMode |-> StrV("RGB to BGR")]) =>
         /\ \A x \in 0..(Input.width - 1), y \in 0..(Input.height - 1) :
              Colour(result, x, y) = <<Colour(Input, x, y)[3], Colour(Input, x, y)[2],
                                       Colour(Input, x, y)[1], Colour(Input, x, y)[4]>>
         /\ Input.data = <<255, 0, 0, 255>> => result.data = <<0, 0, 255, 255>>
    /\ AppliedTwice("bgr-swap", [swapMode |-> StrV("RGB to BGR")]) =>
         /\ result.width = Input.width
         /\ result.height = Input.height
         /\ result.data = Input.data

\* C17 witness: the red pixel went to blue and, swapped again, back to red
C17_RedSwappedTwice ==
    /\ AppliedTwice("bgr-swap", [swapMode |-> StrV("RGB to BGR")])
    /\ Input = RedPixel
    /\ previous.data = <<0, 0, 255, 255>>
    /\ result.data = <<255, 0, 0, 255>>

TooDark == [mode |-> StrV("Linear treated as sRGB (too dark)"), gamma |-> NumV(220)]

\* C20: gamma with mode 'Linear treated as sRGB (too dark)' and gamma 2.2
\* returns, for a colour channel of 128, round(255 * (128 / 255)^2.2), which
\* is 56 (111^5 * 255^6 <= 2^82 < 113^5 * 255^6) and so smaller than 128,
\* and returns every alpha byte as it was
C20_GammaTooDark ==
    /\ BigLeq(BigTimesPow(BigTimesPow(BigOf(1), 111, 5), 255, 6), BigTimesPow(BigOf(1), 2, 82))
    /\ ~BigLeq(BigTimesPow(BigTimesPow(BigOf(1), 113, 5), 255, 6), BigTimesPow(BigOf(1), 2, 82))
    /\ 56 < 128
    /\ AppliedOnce("gamma", TooDark) =>
         /\ Len(result.data) = Len(Input.data)
         /\ \A k \in 1..Len(Input.data) :
              IF k % 4 = 0 THEN result.data[k] = Input.data[k]
              ELSE Input.data[k] = 128 => result.data[k] = 56

\* C20 witness: the mid-gray pixel and the translucent pixel beside it went
\* through the mode; the gray is darker, both alphas are kept
C20_GrayDarkened ==
    /\ AppliedOnce("gamma", TooDark)
    /\ Input = GrayImage
    /\ result.data = <<56, 56, 56, 255, 56, 0, 255, 77>>

----------------------------------------------------------------------------
(* mipmap.apply step by step: the while loop that builds the chain, one     *)
(* level each iteration, then the loop over the output pixels, one pixel    *)
(* each iteration                                                           *)

\* sizes of the input bitmaps: the small ones, and strips long enough for
\* 'Wrong mip level' to leave level 0
ChainSizes ==
    {<<w, h>> : w \in 1..MaxChain, h \in 1..MaxChain} \cup {<<33, 1>>, <<1, 34>>, <<32, 2>>}

\* params.lodBias at every step of its declared range
ChainCalls ==
    {[P EXCEPT !["lodBias"] = NumV(b)] :
        P \in InRangeMaps("mipmap"),
        b \in {v \in Definition("mipmap", "lodBias").min..Definition("mipmap", "lodBias").max :
                  v % Definition("mipmap", "lodBias").step = 0}}

InitMipChain ==
    /\ heap \in {<<TestImage(s[1], s[2], 0)>> : s \in ChainSizes}
    /\ original = 1
    /\ glitch = ""
    /\ params = <<>>
    /\ result = NoResult
    /\ snapshot = <<>>
    /\ previous = NoResult
    /\ registry = GlitchesModule(Definitions(Catalog))
    /\ handled = NoEvent
    /\ frame = NoFrame
    /\ pending = <<>>
    /\ downloadBtn = TRUE

\* the call: params are read, mipLevels = [imageData], mipW = width,
\* mipH = height
MipmapBegin(P) ==
    /\ frame.pc = "idle"
    /\ glitch' = "mipmap"
    /\ params' = P
    /\ frame' = [NoFrame EXCEPT !.pc = "chain", !.q = mipmapParams(P),
                                !.mipLevels = <<heap[original]>>,
                                !.mipW = heap[original].width,
                                !.mipH = heap[original].height]
    /\ UNCHANGED <<heap, original, result, snapshot, previous, registry, handled,
                 pending, downloadBtn>>

Pushed(f, newMip) ==
    [f EXCEPT !.mipLevels = Append(f.mipLevels, newMip), !.mipW = newMip.width,
              !.mipH = newMip.height]

\* one iteration of while (mipW > 1 || mipH > 1)
MipmapDownsample ==
    /\ frame.pc = "chain"
    /\ frame.mipW > 1 \/ frame.mipH > 1
    /\ frame' = Pushed(frame, downsample(frame.mipLevels[Len(frame.mipLevels)]))
    /\ UNCHANGED <<heap, original, glitch, params, result, snapshot, previous, registry,
                   handled, pending, downloadBtn>>

\* the while loop is left
MipmapChainBuilt ==
    /\ frame.pc = "chain"
    /\ ~(frame.mipW > 1 \/ frame.mipH > 1)
    /\ frame' = [frame EXCEPT !.pc = "pixels"]
    /\ UNCHANGED <<heap, original, glitch, params, result, snapshot, previous, registry,
                   handled, pending, downloadBtn>>

\* mip, srcX, srcY and srcIdx of the loop body for output pixel (x, y)
mipmapSrc(mip, mipLevel, x, y) ==
    [mipLevel |-> mipLevel, width |-> mip.width, height |-> mip.height,
     length |-> Len(mip.data),
     srcX |-> (x \div (2 ^ mipLevel)) % mip.width,
     srcY |-> (y \div (2 ^ mipLevel)) % mip.height,
     srcIdx |-> (((y \div (2 ^ mipLevel)) % mip.height) * mip.width
                    + ((x \div (2 ^ mipLevel)) % mip.width)) * 4]

\* the loop variables after the body for (x, y) in a width x height output
Stepped(f, width, height) ==
    IF f.x + 1 < width THEN [f EXCEPT !.x = f.x + 1]
    ELSE IF f.y + 1 < height THEN [f EXCEPT !.x = 0, !.y = f.y + 1]
    ELSE [f EXCEPT !.pc = "returned"]

\* the body of the pixel loop with the level it selects
Sampled(f, mipLevel) ==
    IF Missing(mipLevel, Len(f.mipLevels))
    THEN [f EXCEPT !.pc = "threw"]
    ELSE Stepped([f EXCEPT !.sampled = mipmapSrc(f.mipLevels[mipLevel + 1], mipLevel, f.x, f.y)],
                 heap[original].width, heap[original].height)

\* one iteration of the loops over y and x
MipmapSample ==
    /\ frame.pc = "pixels"
    /\ frame' = Sampled(frame, mipLevelIn(Len(frame.mipLevels), frame.q, frame.x, frame.y))
    /\ UNCHANGED <<heap, original, glitch, params, result, snapshot, previous, registry,
                   handled, pending, downloadBtn>>

NextMipChain ==
    \/ \E P \in ChainCalls : MipmapBegin(P)
    \/ MipmapDownsample
    \/ MipmapChainBuilt
    \/ MipmapSample

\* a call that runs is not suspended for ever: JavaScript runs it to
\* completion
SpecMipChain ==
    /\ InitMipChain
    /\ [][NextMipChain]_vars
    /\ WF_vars(MipmapDownsample)
    /\ WF_vars(MipmapChainBuilt)

\* the chain as far as it is built has the sizes of repeated halving
ChainShape ==
    /\ frame.mipLevels[1] = Input
    /\ \A k \in 0..(Len(frame.mipLevels) - 1) :
          /\ frame.mipLevels[k + 1].width = Max(1, Input.width \div (2 ^ k))
          /\ frame.mipLevels[k + 1].height = Max(1, Input.height \div (2 ^ k))
          /\ Len(frame.mipLevels[k + 1].data)
                = 4 * frame.mipLevels[k + 1].width * frame.mipLevels[k + 1].height

\* the chain is complete
ChainBuilt ==
    /\ frame.mipLevels[Len(frame.mipLevels)].width = 1
    /\ frame.mipLevels[Len(frame.mipLevels)].height = 1
    /\ frame.mipLevels = mipLevels(Input)

\* the level and the coordinates of the last sample exist
SampleInside ==
    /\ frame.sampled.mipLevel \in 0..(Len(frame.mipLevels) - 1)
    /\ frame.sampled.srcX \in 0..(frame.sampled.width - 1)
    /\ frame.sampled.srcY \in 0..(frame.sampled.height - 1)
    /\ frame.sampled.srcIdx >= 0
    /\ frame.sampled.srcIdx + 3 < frame.sampled.length

MipChainSafe ==
    /\ frame.pc # "threw"
    /\ frame.pc # "idle" => ChainShape
    /\ frame.pc \in {"pixels", "returned"} => ChainBuilt
    /\ frame.sampled # <<>> => SampleInside

\* C21: for every bitmap and every lodBias of the declared range, in every
\* mode, the construction of the mip chain terminates; level 0 is the
\* input, level k is max(1, floor(width / 2^k)) x max(1, floor(height / 2^k)),
\* the last level is 1x1, every level selected is a level of the chain and
\* every coordinate sampled lies inside it
C21_MipChainTerminates ==
    /\ []MipChainSafe
    /\ (frame.pc = "chain") ~> (frame.pc = "pixels")

\* C21 witness: 'Wrong mip level' on the 33x1 strip built six levels and
\* sampled level 1 for the pixel at x = 32
C21_StripSampled ==
    /\ frame.pc = "returned"
    /\ Input.width = 33
    /\ Len(frame.mipLevels) = 6
    /\ frame.mipLevels[2].width = 16
    /\ frame.sampled.mipLevel = 1
    /\ frame.sampled.srcX = 0

----------------------------------------------------------------------------
(* The Morton helpers of swizzle.apply on coordinates below 2^15: a pair is *)
(* encoded, the code is decoded, then another pair is encoded and decoded   *)

\* bit i of n >= 0
BitOf(n, i) == (n \div (2 ^ i)) % 2

\* every single bit, no bit, every bit, the alternating patterns and 3
MortonCoords ==
    {2 ^ i : i \in 0..MaxBit} \cup {0, 3, 2 ^ (MaxBit + 1) - 1,
                                    (2 ^ (MaxBit + 1) - 1) \div 3, (2 ^ (MaxBit + 2) - 2) \div 3}

\* the coordinates of the pair encoded second
MortonOthers == {0, 1, 2 ^ (MaxBit + 1) - 1}

NoPair == [x |-> 0 - 1, y |-> 0 - 1, code |-> 0 - 1]

\* const code = mortonEncode(x, y)
MortonEncoded(x, y, before) ==
    /\ frame' = [pc |-> "encoded", x |-> x, y |-> y, code |-> mortonEncode(x, y),
                 decoded |-> <<>>, before |-> before]
    /\ UNCHANGED <<heap, original, glitch, params, result, snapshot, previous, registry,
                   handled, pending, downloadBtn>>

EncodeFirst(x, y) ==
    /\ frame.pc = "idle"
    /\ MortonEncoded(x, y, NoPair)

\* const [dx, dy] = mortonDecode(code)
DecodeCode ==
    /\ frame.pc = "encoded"
    /\ frame' = [frame EXCEPT !.pc = "decoded", !.decoded = mortonDecode(frame.code)]
    /\ UNCHANGED <<heap, original, glitch, params, result, snapshot, previous, registry,
                   handled, pending, downloadBtn>>

EncodeAnother(x, y) ==
    /\ frame.pc = "decoded"
    /\ frame.before = NoPair
    /\ MortonEncoded(x, y, [x |-> frame.x, y |-> frame.y, code |-> frame.code])

NextMorton ==
    \/ \E x \in MortonCoords, y \in MortonCoords : EncodeFirst(x, y)
    \/ DecodeCode
    \/ \E x \in MortonOthers, y \in MortonOthers : EncodeAnother(x, y)
    \/ EncodeAnother(frame.y, frame.x)

SpecMorton == Init /\ [][NextMorton]_vars

\* C22: for coordinates 0 <= x, y < 2^15, bit i of x is bit 2i of
\* mortonEncode(x, y) and bit i of y is bit 2i + 1, no other bit is set,
\* two different pairs have different codes, and mortonDecode gives the
\* pair back
C22_MortonRoundTrip ==
    /\ frame.pc \in {"encoded", "decoded"} =>
         /\ frame.code >= 0
         /\ frame.code < 2 ^ (2 * MaxBit + 2)
         /\ \A i \in 0..MaxBit :
               /\ BitOf(frame.code, 2 * i) = BitOf(frame.x, i)
               /\ BitOf(frame.code, 2 * i + 1) = BitOf(frame.y, i)
         /\ frame.code = frame.before.code => (frame.x = frame.before.x /\ frame.y = frame.before.y)
    /\ frame.pc = "decoded" => frame.decoded = <<frame.x, frame.y>>

\* C22 witness: (21845, 32767) and then (32767, 21845), each encoded and
\* decoded: the codes differ
C22_SwappedPairDecoded ==
    /\ frame.pc = "decoded"
    /\ frame.x = 2 ^ (MaxBit + 1) - 1
    /\ frame.y = (2 ^ (MaxBit + 2) - 2) \div 3
    /\ frame.before.x = frame.y
    /\ frame.before.y = frame.x
    /\ frame.code # frame.before.code
    /\ frame.decoded = <<frame.x, frame.y>>

----------------------------------------------------------------------------
(* swizzle forward and back: the bitmap is swizzled, then the bitmap that   *)
(* came back is swizzled with the same pattern and inverse negated          *)

\* a w x h bitmap whose pixels all differ (w * h <= 256)
IndexedImage(w, h) ==
    [width |-> w, height |-> h,
     data |-> [k \in 1..(w * h * 4) |->
                 CASE (k - 1) % 4 = 0 -> (k - 1) \div 4
                   [] (k - 1) % 4 = 1 -> 255 - ((k - 1) \div 4)
                   [] (k - 1) % 4 = 2 -> (7 * ((k - 1) \div 4)) % 256
                   [] OTHER -> 255 - (((k - 1) \div 4) % 3)]]

\* squares of a power of two, multiples of the tiles, even heights, and
\* sizes that are none of these
SwizzleSizes ==
    {<<1, 1>>, <<2, 2>>, <<4, 4>>, <<8, 8>>, <<4, 8>>, <<8, 4>>, <<16, 8>>,
     <<1, 2>>, <<3, 4>>, <<2, 6>>, <<3, 3>>, <<2, 3>>, <<5, 1>>}

InitSwizzle ==
    /\ heap \in {<<IndexedImage(s[1], s[2])>> : s \in SwizzleSizes}
    /\ original = 1
    /\ glitch = ""
    /\ params = <<>>
    /\ result = NoResult
    /\ snapshot = <<>>
    /\ previous = NoResult
    /\ registry = GlitchesModule(Definitions(Catalog))
    /\ handled = NoEvent
    /\ frame = NoFrame
    /\ pending = <<>>
    /\ downloadBtn = TRUE

\* params with inverse negated
Reversed(P) == [P EXCEPT !["inverse"] = BoolV(~P["inverse"].bool)]

\* swizzle runs on the bitmap it returned, the other way round
ApplyReversed ==
    /\ HasOutput
    /\ ~previous.called
    /\ Keep(Call(heap, result.output, glitch, Reversed(params)))
    /\ params' = Reversed(params)
    /\ previous' = result
    /\ UNCHANGED <<original, glitch, snapshot, registry, handled, frame, pending, downloadBtn>>

NextSwizzle ==
    \/ \E P \in InRangeMaps("swizzle") : ApplyGlitch("swizzle", P)
    \/ ApplyReversed
    \/ ShowOriginal

SpecSwizzle == InitSwizzle /\ [][NextSwizzle]_vars

PowerOfTwo(n) == \E k \in 0..MaxBit : n = 2 ^ k

\* the sizes for which a pattern is a permutation of the pixels
WellShaped(pattern, w, h) ==
    CASE pattern = "Morton (Z-order)" -> w = h /\ PowerOfTwo(w)
      [] pattern = "Tiled 4x4" -> w % 4 = 0 /\ h % 4 = 0
      [] pattern = "Tiled 8x8" -> w % 8 = 0 /\ h % 8 = 0
      [] pattern = "Interleaved rows" -> h % 2 = 0
      [] OTHER -> FALSE

\* swizzle ran with inverse = false and then, on what it returned, with
\* inverse = true
ForwardThenInverse ==
    /\ HasOutput
    /\ previous.called
    /\ ~previous.threw
    /\ glitch = "swizzle"
    /\ params["inverse"] = BoolV(TRUE)

\* C23: on a well-shaped bitmap (Morton: a square of a power of two; Tiled:
\* width and height multiples of the tile; Interleaved rows: even height)
\* swizzle with inverse = false followed by swizzle with inverse = true and
\* the same pattern returns the original bitmap
C23_SwizzleInverse ==
    (ForwardThenInverse /\ WellShaped(params["pattern"].str, Input.width, Input.height)) =>
        /\ result.width = Input.width
        /\ result.height = Input.height
        /\ result.data = Input.data

\* C23 witness: 'Tiled 4x4' went forward and back on the 8x4 bitmap of
\* distinct pixels; the forward run moved pixels
C23_TiledThereAndBack ==
    /\ ForwardThenInverse
    /\ params["pattern"] = StrV("Tiled 4x4")
    /\ Input = IndexedImage(8, 4)
    /\ previous.data # Input.data
    /\ result.data = Input.data

----------------------------------------------------------------------------
(* uv-wrapping over scales and offsets of its declared ranges               *)

UvSizes == {<<1, 1>>, <<2, 2>>, <<3, 2>>, <<5, 3>>}

\* uvScale and the offsets at steps of their ranges, in hundredths
UvScales == {50, 125, 200, 400}
UvOffsets == {0 - 100, 0 - 30, 0, 50, 100}

UvCalls ==
    {[wrapMode |-> m, uvScale |-> NumV(s), uvOffsetX |-> NumV(ox), uvOffsetY |-> NumV(oy)] :
        m \in InRangeValues(Definition("uv-wrapping", "wrapMode")),
        s \in UvScales, ox \in UvOffsets, oy \in UvOffsets}

InitUvWrapping ==
    /\ heap \in {<<DistinctImage>>} \cup {<<TestImage(s[1], s[2], 1)>> : s \in UvSizes}
    /\ original = 1
    /\ glitch = ""
    /\ params = <<>>
    /\ result = NoResult
    /\ snapshot = <<>>
    /\ previous = NoResult
    /\ registry = GlitchesModule(Definitions(Catalog))
    /\ handled = NoEvent
    /\ frame = NoFrame
    /\ pending = <<>>
    /\ downloadBtn = TRUE

NextUvWrapping ==
    \/ \E P \in UvCalls : ApplyGlitch("uv-wrapping", P)
    \/ ShowOriginal

SpecUvWrapping == InitUvWrapping /\ [][NextUvWrapping]_vars

UvApplied(mode) ==
    /\ HasOutput
    /\ glitch = "uv-wrapping"
    /\ InRange("uv-wrapping", params)
    /\ params["wrapMode"] = StrV(mode)

\* 100 * width * u and 100 * height * v for output pixel (x, y):
\* u = (x / width) * uvScale + uvOffsetX, v = (y / height) * uvScale + uvOffsetY
UvU(x) == x * params["uvScale"].num + params["uvOffsetX"].num * Input.width
UvV(y) == y * params["uvScale"].num + params["uvOffsetY"].num * Input.height

\* C24: in mode 'None (shows bug)' output pixel (x, y) is (255, 0, 255, 255)
\* exactly when u or v lies outside [0, 1] and is otherwise the input pixel
\* at (floor(u * (width - 1)), floor(v * (height - 1))); in modes 'Repeat'
\* and 'Clamp' the coordinates sampled lie inside the bitmap
C24_UvWrapping ==
    /\ UvApplied("None (shows bug)") =>
         \A x \in 0..(Input.width - 1), y \in 0..(Input.height - 1) :
            Colour(result, x, y) =
                IF UvU(x) < 0 \/ UvU(x) > 100 * Input.width
                      \/ UvV(y) < 0 \/ UvV(y) > 100 * Input.height
                THEN <<255, 0, 255, 255>>
                ELSE Colour(Input, (UvU(x) * (Input.width - 1)) \div (100 * Input.width),
                                   (UvV(y) * (Input.height - 1)) \div (100 * Input.height))
    /\ (UvApplied("Repeat") \/ UvApplied("Clamp")) =>
         \A x \in 0..(Input.width - 1), y \in 0..(Input.height - 1) :
            /\ uvWrappingSrc(Input, uvWrappingParams(params), x, y)[1] \in 0..(Input.width - 1)
            /\ uvWrappingSrc(Input, uvWrappingParams(params), x, y)[2] \in 0..(Input.height - 1)

\* C24 witness: 'None (shows bug)' with uvScale 2 and no offset on the 4x4
\* bitmap: the left upper quarter is sampled, pixel (2, 0) has u = 1 and
\* reads the last column, the rest is the magenta sentinel
C24_NoneHalfOutside ==
    /\ UvApplied("None (shows bug)")
    /\ params["uvScale"] = NumV(200)
    /\ params["uvOffsetX"] = NumV(0)
    /\ params["uvOffsetY"] = NumV(0)
    /\ Input = DistinctImage
    /\ Colour(result, 1, 1) = Colour(Input, 1, 1)
    /\ Colour(result, 2, 0) = Colour(Input, 3, 0)
    /\ Colour(result, 3, 0) = <<255, 0, 255, 255>>
    /\ Colour(result, 0, 3) = <<255, 0, 255, 255>>

----------------------------------------------------------------------------
(* bit-depth over bitmaps that hold many channel values                     *)

\* an 86x1 bitmap whose colour bytes take every value 0 .. 255
RampImage ==
    [width |-> 86, height |-> 1,
     data |-> [k \in 1..344 |->
                 IF (k - 1) % 4 = 3 THEN 255 - 50 * (((k - 1) \div 4) % 2)
                 ELSE Min(255, 3 * ((k - 1) \div 4) + ((k - 1) % 4))]]

InitBitDepth ==
    /\ heap \in {<<RampImage>>, <<GrayImage>>, <<RedPixel>>, <<DistinctImage>>}
                   \cup {<<TestImage(w, h, seed)>> :
                            w \in 1..MaxDim, h \in 1..MaxDim, seed \in 0..MaxSeed}
    /\ original = 1
    /\ glitch = ""
    /\ params = <<>>
    /\ result = NoResult
    /\ snapshot = <<>>
    /\ previous = NoResult
    /\ registry = GlitchesModule(Definitions(Catalog))
    /\ handled = NoEvent
    /\ frame = NoFrame
    /\ pending = <<>>
    /\ downloadBtn = TRUE

NextBitDepth ==
    \/ \E P \in InRangeMaps("bit-depth") : ApplyGlitch("bit-depth", P)
    \/ ShowOriginal

SpecBitDepth == InitBitDepth /\ [][NextBitDepth]_vars

\* the indices of the colour bytes of a bitmap's data
ColourBytes(data) == {k \in 1..Len(data) : k % 4 # 0}

\* C25: bit-depth in mode 'Simulate 16-bit as 8-bit' passes alpha through
\* and makes the output RGB depend on the input RGB: run on a bitmap whose
\* colour bytes differ, it returns colour bytes that differ
C25_BrightValuesWrap ==
    (HasOutput /\ glitch = "bit-depth" /\ InRange("bit-depth", params)
        /\ params["mode"] = StrV("Simulate 16-bit as 8-bit")) =>
        /\ \A k \in 1..Len(Input.data) : k % 4 = 0 => result.data[k] = Input.data[k]
        /\ (\E i, j \in ColourBytes(Input.data) : Input.data[i] # Input.data[j]) =>
              \E i, j \in ColourBytes(result.data) : result.data[i] # result.data[j]

----------------------------------------------------------------------------
(* The hash of float-precision at the coordinates of one output pixel, as   *)
(* the body of 'Random corruption' takes it                                 *)

HashCoords == 0..MaxHash \cup {255, 799, 4095}

\* the loop body for pixel (x, y): hash(x, y), corruptType and the garbage
\* channels of case 3
HashPixel(x, y) ==
    /\ frame.pc = "idle"
    /\ frame' = [pc |-> "hashed", x |-> x, y |-> y,
                 hashes |-> <<hash(x, y), hash(x + 100, y), hash(x, y + 1), hash(x + 1, y),
                              hash(x + 1, y + 1)>>,
                 corruptType |-> HashFloor(hash(x + 100, y), 4),
                 garbage |-> Garbage(3, x, y)]
    /\ UNCHANGED <<heap, original, glitch, params, result, snapshot, previous, registry,
                   handled, pending, downloadBtn>>

NextHash == \E x \in HashCoords, y \in HashCoords : HashPixel(x, y)

SpecHash == Init /\ [][NextHash]_vars

\* hv / 2^32 lies in [0, 1)
InUnitInterval(hv) == hv.hi \in 0..65535 /\ hv.lo \in 0..65535

\* C26: at the coordinates float-precision reaches, (x, y), (x + 100, y),
\* (x, y + 1), (x + 1, y) and (x + 1, y + 1), the hash lies in [0, 1), so
\* the corruption type floor(hash * 4) is one of 0, 1, 2, 3 and every
\* garbage channel floor(hash * 256) is in 0 .. 255
C26_HashRange ==
    frame.pc = "hashed" =>
        /\ \A i \in 1..5 : InUnitInterval(frame.hashes[i])
        /\ frame.corruptType \in 0..3
        /\ \A c \in 1..3 : frame.garbage[c] \in 0..255

\* C26 witness: the hashes of pixel (4095, 255) were taken; hash(4095, 255)
\* is (58850 * 65536 + 52858) / 2^32
C26_LargePixelHashed ==
    /\ frame.pc = "hashed"
    /\ frame.x = 4095
    /\ frame.y = 255
    /\ frame.hashes[1] = [hi |-> 58850, lo |-> 52858]
    /\ frame.corruptType = 3

----------------------------------------------------------------------------
(* row-padding over widths of every remainder modulo 4                     *)

PaddingSizes == {<<w, h>> : w \in 1..5, h \in 1..4}

\* paddingBytes at steps of its range 0..16
PaddingSteps == {0, 1, 3, 4, 7, 16}

PaddingCalls ==
    {[paddingBytes |-> IntV(n), simulateBMP |-> BoolV(b)] :
        n \in PaddingSteps, b \in BOOLEAN}

InitRowPadding ==
    /\ heap \in {<<TestImage(s[1], s[2], 1)>> : s \in PaddingSizes}
    /\ original = 1
    /\ glitch = ""
    /\ params = <<>>
    /\ result = NoResult
    /\ snapshot = <<>>
    /\ previous = NoResult
    /\ registry = GlitchesModule(Definitions(Catalog))
    /\ handled = NoEvent
    /\ frame = NoFrame
    /\ pending = <<>>
    /\ downloadBtn = TRUE

NextRowPadding ==
    \/ \E P \in PaddingCalls : ApplyGlitch("row-padding", P)
    \/ ShowOriginal

SpecRowPadding == InitRowPadding /\ [][NextRowPadding]_vars

RowPaddingApplied == HasOutput /\ glitch = "row-padding"

\* C27: row-padding stores to every output pixel, with simulateBMP as well
\* as without: each is assigned from indices inside the source buffer and
\* has alpha 255, none keeps the (0, 0, 0, 0) of the fresh bitmap
C27_RowPaddingWritesAll ==
    RowPaddingApplied =>
        /\ Len(result.pixels) = Input.width * Input.height
        /\ \A k \in 1..Len(result.pixels) :
              /\ result.pixels[k].written
              /\ result.pixels[k].reads # {}
              /\ \A rd \in result.pixels[k].reads : 0 <= rd[1] /\ rd[1] < rd[2]
              /\ result.data[4 * k] = 255

\* C27 witness: simulateBMP on the 1x4 bitmap, each row is 3 bytes and 1 of
\* padding, so the last output pixel is read from the last source pixel and
\* the bounds test holds with nothing to spare
C27_LastPixelAtTheEdge ==
    /\ RowPaddingApplied
    /\ params["simulateBMP"] = BoolV(TRUE)
    /\ Input.width = 1
    /\ Input.height = 4
    /\ result.pixels[4].written
    /\ Rd(14, 16) \in result.pixels[4].reads
    /\ Colour(result, 0, 3) = <<Input.data[13], Input.data[14], Input.data[15], 255>>

----------------------------------------------------------------------------
(* The processed bitmap the Sandbox holds and its download button          *)

\* the outcome c of a call is the processed bitmap held
Held(c) ==
    /\ ~c.threw
    /\ c.width = result.width
    /\ c.height = result.height
    /\ c.data = result.data

\* processedImageData is what currentGlitch.apply(originalImageData,
\* currentParams) returns
ResultCurrent ==
    /\ original # 0
    /\ glitch # ""
    /\ Held(Call(Live(heap, {original}), original, glitch, params).outcome)

\* C28: in every state of the Sandbox, whatever the order of file loads,
\* glitch selections, parameter changes and resets, the download button is
\* enabled exactly when a processed bitmap is held, and a processed bitmap
\* held is what the selected glitch returns for the current parameters and
\* the loaded original
C28_ResultConsistent ==
    /\ downloadBtn = ~result.called
    /\ result.called => ResultCurrent

----------------------------------------------------------------------------
(* The Sandbox with loads of files that take time: handleFile awaits       *)
(* loadImageDataFromFile, other handlers and other loads run in between,   *)
(* and the rest of handleFile runs when the promise settles.               *)

\* the files the user picks: bitmaps, and a file that is no image
Files ==
    {[width |-> 1, height |-> 1, seed |-> s, image |-> TRUE, state |-> "loading"] :
        s \in 0..MaxSeed}
    \cup {[width |-> 2, height |-> 1, seed |-> 0, image |-> b, state |-> "loading"] :
            b \in BOOLEAN}

\* imageToImageData(img) of a file that loaded
BitmapOf(file) == TestImage(file.width, file.height, file.seed)

\* handleFile up to its await: the load of the file begins
HandleFileBegins(file) ==
    /\ Len(pending) < MaxFiles
    /\ pending' = Append(pending, file)
    /\ UNCHANGED <<heap, original, glitch, params, result, snapshot, previous, registry,
                   handled, frame, downloadBtn>>

\* handleFile behind its await, for load i: the bitmap becomes the original,
\* showOriginal has left a, then applyGlitch if a glitch is selected
AfterAwait(i, a) ==
    /\ pending' = [pending EXCEPT ![i].state = "loaded"]
    /\ Leave("file", "", FALSE, handled.chosen, glitch, params, 1,
             IF glitch # "" THEN applyGlitch(a.heap, 1, glitch, params, a.result, a.disabled)
             ELSE a)

\* the promise of load i resolves
LoadResolves(i) ==
    /\ pending[i].state = "loading"
    /\ pending[i].image
    /\ AfterAwait(i, showOriginal(<<BitmapOf(pending[i])>>, 1, NoResult, downloadBtn))

\* the promise of load i rejects (the file is no image, or cannot be read
\* or decoded): the catch block logs and alerts
LoadRejects(i) ==
    /\ pending[i].state = "loading"
    /\ pending' = [pending EXCEPT ![i].state = "failed"]
    /\ UNCHANGED <<heap, original, glitch, params, result, snapshot, previous, registry,
                   handled, frame, downloadBtn>>

\* the options of the glitch select and its placeholder
Options == {glitches[i] : i \in 1..MaxOptions} \cup {""}

NextLoads ==
    \/ \E file \in Files : HandleFileBegins(file)
    \/ \E i \in 1..Len(pending) : LoadResolves(i)
    \/ \E i \in 1..Len(pending) : LoadRejects(i)
    \/ \E id \in Options : SelectChange(id)
    \/ ResetClick
    \/ \E n \in Controls(glitch) : \E v \in ControlValues(Definition(glitch, n)) :
          ParamChange(n, v)

SpecLoads == Init /\ [][NextLoads]_vars

\* C28 witness: a second file finished loading while a glitch was selected
\* and one of its controls had been changed: the bitmap held was made from
\* the new original with the changed parameters
C28_ReloadedWithChosenParams ==
    /\ handled.handler = "file"
    /\ handled.applied
    /\ DOMAIN handled.chosen # {}
    /\ params # Defaults(glitch)
    /\ Len(pending) = 2
    /\ pending[1].state = "loaded"
    /\ pending[2].state = "loaded"
    /\ result.called
    /\ ~downloadBtn

\* both loads of two files resolved
BothLoaded ==
    /\ Len(pending) = 2
    /\ pending[1].state = "loaded"
    /\ pending[2].state = "loaded"

\* a step in which the load of a file rejects
LoadRejected ==
    \E i \in 1..Len(pending) : pending[i].state = "loading" /\ pending'[i].state = "failed"

\* a load that fails leaves the original, the processed bitmap and the
\* selected glitch as they were
RejectedLoadKeeps == [][LoadRejected => UNCHANGED <<heap, original, result, glitch>>]_vars

\* C29: when file A and then file B were handed to handleFile and both
\* loads succeeded, the original is B's bitmap once both have completed,
\* in whichever order they completed; a load that fails leaves the
\* original, the processed bitmap and the selected glitch unchanged
C29_LastSuppliedWins ==
    /\ [](BothLoaded => heap[original] = BitmapOf(pending[2]))
    /\ RejectedLoadKeeps

\* the load of the first file resolved after the load of the second and the
\* original is the first file's bitmap
FirstFileWon ==
    /\ BothLoaded
    /\ BitmapOf(pending[1]) # BitmapOf(pending[2])
    /\ heap[original] = BitmapOf(pending[1])

----------------------------------------------------------------------------
(* sampling in its two nearest-neighbour modes, applied to its own output   *)

\* sizes below, at and above the block sizes, with blocks cut by the edge
PixelateSizes == {<<1, 1>>, <<4, 4>>, <<5, 3>>, <<7, 2>>, <<9, 1>>, <<17, 2>>, <<3, 6>>}

\* scale at steps of its range 2..16
PixelateScales == {2, 3, 4, 5, 8, 16}

PixelateModes == {"Nearest (blocky)", "Exaggerated nearest (pixelate)"}

PixelateCalls ==
    {[mode |-> StrV(m), scale |-> IntV(s)] : m \in PixelateModes, s \in PixelateScales}

InitPixelate ==
    /\ heap \in {<<IndexedImage(s[1], s[2])>> : s \in PixelateSizes}
    /\ original = 1
    /\ glitch = ""
    /\ params = <<>>
    /\ result = NoResult
    /\ snapshot = <<>>
    /\ previous = NoResult
    /\ registry = GlitchesModule(Definitions(Catalog))
    /\ handled = NoEvent
    /\ frame = NoFrame
    /\ pending = <<>>
    /\ downloadBtn = TRUE

NextPixelate ==
    \/ \E P \in PixelateCalls : ApplyGlitch("sampling", P)
    \/ ApplyToOutput
    \/ ShowOriginal

SpecPixelate == InitPixelate /\ [][NextPixelate]_vars

\* C30: sampling in mode 'Exaggerated nearest (pixelate)' and in mode
\* 'Nearest (blocky)', with an integer scale of the range 2..16, applied to
\* the bitmap it returned gives that bitmap again
C30_PixelationIdempotent ==
    (HasOutput /\ previous.called /\ ~previous.threw /\ glitch = "sampling"
        /\ params \in PixelateCalls) =>
        /\ result.width = previous.width
        /\ result.height = previous.height
        /\ result.data = previous.data

\* C30 witness: 'Nearest (blocky)' with scale 4 ran twice on the 5x3 bitmap:
\* the block of column 4 is cut by the edge and its centre (6, 2) clamped
\* to pixel (4, 2), the first block is filled from pixel (2, 2)
C30_BlockyTwiceAtTheEdge ==
    /\ AppliedTwice("sampling", [mode |-> StrV("Nearest (blocky)"), scale |-> IntV(4)])
    /\ Input.width = 5
    /\ Input.height = 3
    /\ previous.data # Input.data
    /\ Colour(previous, 4, 0) = Colour(Input, 4, 2)
    /\ Colour(previous, 0, 0) = Colour(Input, 2, 2)
    /\ result.data = previous.data

=============================================================================
